---- MODULE Spec2Model ----
(***************************************************************************)
(* Model of the job dispatcher of the Instagram analytics worker:          *)
(* apps/worker/src/index.ts (workerLoop, processJob), SupabaseService      *)
(* (job, session and profile-state operations), InstagramClient (browser   *)
(* resource, login) and the enqueuers that insert rows into sync_jobs.     *)
(***************************************************************************)
EXTENDS Integers, Sequences, FiniteSets, TLC

(* ---------------------------- bounds ----------------------------------- *)
\* number of jobs the external enqueuers insert in one behaviour
MaxEnqueue == 2
\* number of polls of the manual second-factor wait before its ceiling
MaxPolls == 2
\* largest number of records the platform holds for an account
MaxItems == 1
\* number of logins the platform accepts in one behaviour
MaxLogins == 1
\* number of adverse events in one behaviour: an error returned by the record
\* store, the browser or the platform, or a stop of a dispatcher process
MaxFaults == 1
\* the same two budgets where several dispatchers run
MultiEnqueue == 1
MultiFaults == 2
\* the same two budgets where the loop is followed to its end
LiveEnqueue == 1
LiveFaults == 1

(* ---------------------------- constants -------------------------------- *)
Workers == {"w1", "w2"}
Profiles == {"p1", "p2"}
\* owner of a profile (profiles.user_id); enqueuers validate ownership
OwnerOf(p) == IF p = "p1" THEN "u1" ELSE "u2"

ALGORITHM == "aes-256-cbc"
\* the process-wide key handed to the EncryptionService
ENCRYPTION_KEY == "k"
\* values randomBytes can return for the initialization vector
IVs == {"iv0", "iv1"}

IG_2FA_REQUIRED == "IG_2FA_REQUIRED"
IG_LOGIN_FAILED == "IG_LOGIN_FAILED"
IG_SCRAPE_FAILED == "IG_SCRAPE_FAILED"
SESSION_EXPIRED == "SESSION_EXPIRED"
INVALID_INPUT == "INVALID_INPUT"
DATABASE_ERROR == "DATABASE_ERROR"
NOT_FOUND == "NOT_FOUND"
INTERNAL_SERVER_ERROR == "INTERNAL_SERVER_ERROR"
\* prefix of the message of an error that is not an AppError
InternalError == "Internal Error"

SyncTypes == {"SYNC_PROFILE", "SYNC_FOLLOWERS", "SYNC_MEDIA"}
\* SYNC_STORIES is accepted by the sync endpoint but unknown to processJob
JobTypes == {"LOGIN", "RECONNECT", "DERIVE_METRICS", "SYNC_STORIES"} \cup SyncTypes
\* metadata of a job: credentials, credentials and a second-factor code, or {}
Metas == {"creds", "creds+code", "empty"}

VARIABLES
    jobs,       \* table sync_jobs: sequence of rows, the id of a row is its index
    clock,      \* now()
    profiles,   \* profiles.connection_state by profile id
    sessions,   \* table ig_sessions: one row per profile, or NoSession
    browsers,   \* browser processes that are open: [job, worker] of the run that launched it
    budget,     \* external enqueues left
    logins,     \* logins the platform still accepts
    faults,     \* adverse events left
    items,      \* number of records the platform returns for a collection
    wk,         \* per dispatcher instance: position in workerLoop and locals of processJob
    call        \* one call of a method followed on its own: its arguments, locals, position

vars == <<jobs, clock, profiles, sessions, browsers, budget, logins, faults, items, wk, call>>

\* the state of the store and of the dispatchers
dispatch == <<jobs, clock, profiles, sessions, browsers, budget, logins, faults, items, wk>>

(* ------------------------------ rows ----------------------------------- *)
NULL == "null"
\* new Date().toISOString() on the dispatcher: the program never reads it back
Date == "date"

JobRow(id, p, u, t, m, st, c) ==
    [id |-> id, profile_id |-> p, user_id |-> u, job_type |-> t, metadata |-> m,
     status |-> st, created_at |-> c, started_at |-> NULL, finished_at |-> NULL,
     processed_items |-> 0, error_message |-> NULL]

NoJob == JobRow(0, "none", "none", "none", "empty", "none", 0)
NoSession == [state |-> "NONE", user_id |-> "none", session_payload_encrypted |-> <<>>,
              last_login_at |-> NULL]

JobIds == 1..Len(jobs)
IsTerminal(st) == st \in {"COMPLETED", "FAILED"}

(* --------------------------- EncryptionService ------------------------- *)
NoPayload == 0

\* AES-CBC as a symbolic cipher: the ciphertext is opened only with the key
\* and the initialization vector it was made with
Cipher(key, iv, text) == <<"enc", key, iv, text>>

encrypt(payload, iv) ==
    [iv |-> iv, encryptedData |-> Cipher(ENCRYPTION_KEY, iv, payload), algorithm |-> ALGORITHM]

\* the payload, or ok = FALSE for the AppError INTERNAL_SERVER_ERROR
decrypt(e) ==
    IF e.algorithm # ALGORITHM THEN [ok |-> FALSE, payload |-> NoPayload]
    ELSE IF e.encryptedData[2] = ENCRYPTION_KEY /\ e.encryptedData[3] = e.iv
         THEN [ok |-> TRUE, payload |-> e.encryptedData[4]]
         ELSE [ok |-> FALSE, payload |-> NoPayload]

(* ------------------------ record store: sync_jobs ---------------------- *)
\* insert into sync_jobs: id and created_at are column defaults
InsertJob(js, p, u, t, m, now) ==
    Append(js, JobRow(Len(js) + 1, p, u, t, m, "PENDING", now))

\* the query without its status filter
SelectOldest(js) ==
    {j \in 1..Len(js) : \A k \in 1..Len(js) : js[j].created_at <= js[k].created_at}

\* the query with the filter status in (PENDING, RUNNING)
SelectUnfinished(js) ==
    {j \in 1..Len(js) :
        /\ js[j].status \in {"PENDING", "RUNNING"}
        /\ \A k \in 1..Len(js) :
              js[k].status \in {"PENDING", "RUNNING"} => js[j].created_at <= js[k].created_at}

\* the query ordered by created_at desc
SelectNewest(js) ==
    {j \in 1..Len(js) :
        /\ js[j].status = "PENDING"
        /\ \A k \in 1..Len(js) :
              js[k].status = "PENDING" => js[j].created_at >= js[k].created_at}

\* select * where status = PENDING order by created_at asc limit 1:
\* the ids the query may return (none when no row is PENDING)
SelectPending(js) ==
    {j \in 1..Len(js) :
        /\ js[j].status = "PENDING"
        /\ \A k \in 1..Len(js) :
              js[k].status = "PENDING" => js[j].created_at <= js[k].created_at}

\* update sync_jobs set status = RUNNING, started_at = Date where id = id
MarkRunning(js, id) ==
    [js EXCEPT ![id].status = "RUNNING", ![id].started_at = Date]

\* update sync_jobs set status, finished_at, processed_items, error_message where id = id
WriteJobStatus(js, id, status, processedItems, errorMessage) ==
    [js EXCEPT ![id].status = status, ![id].finished_at = Date,
               ![id].processed_items = processedItems, ![id].error_message = errorMessage]

\* no method is followed on its own
NoCall == [fn |-> "none"]

(* ---------------------------- dispatcher locals ------------------------ *)
Locals(pcv) ==
    [pc |-> pcv, job |-> NoJob, browser |-> FALSE, jobStatus |-> "COMPLETED",
     processedItems |-> 0, errorMessage |-> NULL, raised |-> FALSE,
     payload |-> NoPayload, idx |-> 0, made |-> <<>>, returned |-> FALSE]

Set(w, r) == wk' = [wk EXCEPT ![w] = r]

\* an adverse event happens, or none does
Fault == faults > 0 /\ faults' = faults - 1
NoFault == UNCHANGED faults

(* ------------------------------ enqueuers ------------------------------ *)
\* the web client and the edge functions insert a PENDING row; the accounts
\* are interchangeable, so the first row is for p1
Enqueue ==
    /\ budget > 0
    /\ \E p \in Profiles, t \in JobTypes, m \in Metas :
          /\ (jobs = <<>>) => p = "p1"
          /\ (t # "LOGIN") => m = "empty"
          /\ jobs' = InsertJob(jobs, p, OwnerOf(p), t, m, clock)
    /\ clock' = clock + 1
    /\ budget' = budget - 1
    /\ UNCHANGED <<profiles, sessions, browsers, logins, faults, items, wk, call>>

(* ------------------------- getNextPendingJob --------------------------- *)
\* a loop that ends at the first exception
LoopExit(r) == [r EXCEPT !.pc = "exit"]

\* catch of workerLoop: log, then the extended backoff
LoopCatch(r) == [r EXCEPT !.pc = "backoff"]

\* the select of getNextPendingJob
SelectJob(w) ==
    /\ wk[w].pc = "poll"
    /\ \/ /\ \E j \in SelectPending(jobs) :
                Set(w, [Locals("mark") EXCEPT !.job = jobs[j]])
          /\ NoFault
       \/ SelectPending(jobs) = {} /\ Set(w, Locals("poll")) /\ NoFault
       \/ Set(w, LoopCatch(Locals("poll"))) /\ Fault
    /\ UNCHANGED <<jobs, clock, profiles, sessions, browsers, budget, logins, items, call>>

\* processJob starts with the case of the job's type
FirstStep(t) ==
    CASE t = "LOGIN" -> "login"
      [] t = "RECONNECT" -> "getSession"
      [] t \in SyncTypes -> "getSession"
      [] t = "DERIVE_METRICS" -> "derive"
      [] OTHER -> "default"

\* an update with the condition status = PENDING, which returns no job
\* when it changed no row
MarkJobIfPending(w) ==
    /\ wk[w].pc = "mark"
    /\ \/ /\ jobs[wk[w].job.id].status = "PENDING"
          /\ jobs' = MarkRunning(jobs, wk[w].job.id)
          /\ Set(w, [wk[w] EXCEPT !.pc = FirstStep(wk[w].job.job_type)])
          /\ NoFault
       \/ /\ jobs[wk[w].job.id].status # "PENDING"
          /\ Set(w, Locals("poll"))
          /\ NoFault
          /\ UNCHANGED jobs
       \/ /\ Set(w, LoopCatch(wk[w]))
          /\ Fault
          /\ UNCHANGED jobs
    /\ UNCHANGED <<clock, profiles, sessions, browsers, budget, logins, items, call>>

\* the update of getNextPendingJob, by id and whatever the row's status is now;
\* the row returned to workerLoop is the one the select read
MarkJob(w) ==
    /\ wk[w].pc = "mark"
    /\ \/ /\ jobs' = MarkRunning(jobs, wk[w].job.id)
          /\ Set(w, [wk[w] EXCEPT !.pc = FirstStep(wk[w].job.job_type)])
          /\ NoFault
       \/ /\ Set(w, LoopCatch(wk[w]))
          /\ Fault
          /\ UNCHANGED jobs
    /\ UNCHANGED <<clock, profiles, sessions, browsers, budget, logins, items, call>>

(* ------------------------------ processJob ----------------------------- *)
\* a catch that records the message and leaves jobStatus as it was
CatchLeavesStatus(r, code) ==
    [r EXCEPT !.errorMessage = code,
              !.pc = IF code \in {IG_2FA_REQUIRED, SESSION_EXPIRED}
                     THEN "catchState" ELSE "finally"]

\* a catch that goes to finally without the profile-state update for
\* SESSION_EXPIRED
CatchKeepsState(r, code) ==
    [r EXCEPT !.jobStatus = "FAILED", !.errorMessage = code,
              !.pc = IF code \in {IG_2FA_REQUIRED}
                     THEN "catchState" ELSE "finally"]

\* catch of processJob up to its profile-state update
Catch(r, code) ==
    [r EXCEPT !.jobStatus = "FAILED", !.errorMessage = code,
              !.pc = IF code \in {IG_2FA_REQUIRED, SESSION_EXPIRED}
                     THEN "catchState" ELSE "finally"]

\* a finally that takes no failure for the second-factor case
Never2FACase(msg) == FALSE

\* errorMessage?.includes('IG_2FA_REQUIRED')
Is2FACase(msg) == msg = IG_2FA_REQUIRED

Run(w) == [job |-> wk[w].job.id, worker |-> w]

\* what initBrowser can do: launch and set up, fail to launch, or launch and
\* then fail to create the context or the page
Launches == {"ok", "nolaunch", "nocontext"}

(* --------------------------- InstagramClient.login --------------------- *)
LoginObs ==
    [launch : Launches, nav : BOOLEAN, has2FAInput : BOOLEAN, has2FAText : BOOLEAN,
     manualAt : 0..MaxPolls, codeOk : BOOLEAN, isLoggedIn : BOOLEAN, closeOk : BOOLEAN]

\* a check that takes every page for the authenticated home
LoginCheckAlways(o) == "payload"

\* step 3 of login: authenticated-home markers
LoginCheck(o) == IF o.isLoggedIn THEN "payload" ELSE IG_LOGIN_FAILED

\* the try block of login: "payload", an AppError code, or "unexpected"
LoginBody(twoFaCode, o) ==
    IF ~o.nav THEN "unexpected"
    ELSE IF o.has2FAInput \/ o.has2FAText
         THEN IF ~twoFaCode
              THEN IF o.manualAt = 0 THEN IG_2FA_REQUIRED ELSE LoginCheck(o)
              ELSE IF ~o.codeOk THEN "unexpected" ELSE LoginCheck(o)
         ELSE LoginCheck(o)

\* login(username, password, twoFaCode): the result and whether the browser
\* it launched is still open when it returns or raises
login(twoFaCode, o) ==
    IF o.launch = "nolaunch" THEN [result |-> InternalError, browser |-> FALSE]
    ELSE IF o.launch = "nocontext" THEN [result |-> InternalError, browser |-> TRUE]
    ELSE LET b == LoginBody(twoFaCode, o) IN
         IF b \in {"payload", IG_2FA_REQUIRED} THEN [result |-> b, browser |-> TRUE]
         ELSE IF o.closeOk THEN [result |-> IG_LOGIN_FAILED, browser |-> FALSE]
         ELSE [result |-> InternalError, browser |-> TRUE]

\* case LOGIN: metadata check and client.login
Login(w) ==
    /\ wk[w].pc = "login"
    /\ IF wk[w].job.metadata = "empty"
       THEN /\ Set(w, Catch(wk[w], INVALID_INPUT))
            /\ UNCHANGED <<browsers, logins, faults>>
       ELSE \E o \in LoginObs :
              LET r == login(wk[w].job.metadata = "creds+code", o) IN
              /\ browsers' = IF r.browser THEN browsers \cup {Run(w)} ELSE browsers
              /\ IF r.result = "payload"
                 THEN /\ Set(w, [wk[w] EXCEPT !.pc = "saveSession", !.browser = TRUE,
                                              !.payload = wk[w].job.id])
                      /\ logins > 0 /\ logins' = logins - 1
                      /\ NoFault
                 ELSE /\ Set(w, Catch([wk[w] EXCEPT !.browser = r.browser], r.result))
                      /\ IF r.result = InternalError THEN Fault ELSE NoFault
                      /\ UNCHANGED logins
    /\ UNCHANGED <<jobs, clock, profiles, sessions, budget, items, call>>

\* saveEncryptedSession(profile_id, user_id, payload, 'VALID'): upsert on profile_id
saveEncryptedSession(ss, p, u, payload, iv) ==
    [ss EXCEPT ![p] = [state |-> "VALID", user_id |-> u,
                       session_payload_encrypted |-> encrypt(payload, iv),
                       last_login_at |-> Date]]

SaveSession(w) ==
    /\ wk[w].pc = "saveSession"
    /\ \/ /\ \E iv \in IVs :
                sessions' = saveEncryptedSession(sessions, wk[w].job.profile_id,
                                wk[w].job.user_id, wk[w].payload, iv)
          /\ Set(w, [wk[w] EXCEPT !.pc = "setConnected"])
          /\ NoFault
       \/ /\ Set(w, Catch(wk[w], DATABASE_ERROR))
          /\ Fault
          /\ UNCHANGED sessions
    /\ UNCHANGED <<jobs, clock, profiles, browsers, budget, logins, items, call>>

\* updateProfileState(profileId, state)
updateProfileState(ps, p, state) == [ps EXCEPT ![p] = state]

SetConnected(w) ==
    /\ wk[w].pc = "setConnected"
    /\ \/ /\ profiles' = updateProfileState(profiles, wk[w].job.profile_id, "CONNECTED")
          /\ Set(w, [wk[w] EXCEPT !.pc = "insert", !.idx = 1])
          /\ NoFault
       \/ /\ Set(w, Catch(wk[w], DATABASE_ERROR))
          /\ Fault
          /\ UNCHANGED profiles
    /\ UNCHANGED <<jobs, clock, sessions, browsers, budget, logins, items, call>>

\* the follow-up batch of case LOGIN
syncJobs == <<"SYNC_PROFILE", "SYNC_FOLLOWERS", "SYNC_MEDIA", "DERIVE_METRICS">>

\* one insert of the follow-up loop; the error it may return is not looked at
InsertFollowUp(w) ==
    /\ wk[w].pc = "insert"
    /\ LET nxt == IF wk[w].idx = Len(syncJobs) THEN "finally" ELSE "insert" IN
       \/ /\ jobs' = InsertJob(jobs, wk[w].job.profile_id, wk[w].job.user_id,
                               syncJobs[wk[w].idx], "empty", clock)
          /\ clock' = clock + 1
          /\ Set(w, [wk[w] EXCEPT !.pc = nxt, !.idx = @ + 1,
                                  !.made = Append(@, Len(jobs) + 1)])
          /\ NoFault
       \/ /\ Set(w, [wk[w] EXCEPT !.pc = nxt, !.idx = @ + 1])
          /\ Fault
          /\ UNCHANGED <<jobs, clock>>
    /\ UNCHANGED <<profiles, sessions, browsers, budget, logins, items, call>>

(* ------------------- RECONNECT and the sync-class cases ---------------- *)
\* getDecryptedSession: found = FALSE (null) when the profile has no VALID row,
\* else what decrypt gives for the row's payload
getDecryptedSession(ss, p) ==
    IF ss[p].state # "VALID" THEN [found |-> FALSE, ok |-> TRUE, payload |-> NoPayload]
    ELSE LET d == decrypt(ss[p].session_payload_encrypted) IN
         [found |-> TRUE, ok |-> d.ok, payload |-> d.payload]

\* sync-class cases read the profile first; then every case reads the session
GetSession(w) ==
    /\ wk[w].pc = "getSession"
    /\ LET t == wk[w].job.job_type
           s == getDecryptedSession(sessions, wk[w].job.profile_id) IN
       \/ t \in SyncTypes /\ Set(w, Catch(wk[w], NOT_FOUND)) /\ Fault
       \/ Set(w, Catch(wk[w], DATABASE_ERROR)) /\ Fault
       \/ ~s.ok /\ Set(w, Catch(wk[w], INTERNAL_SERVER_ERROR)) /\ NoFault
       \/ ~s.found /\ t = "RECONNECT" /\ Set(w, Catch(wk[w], SESSION_EXPIRED)) /\ NoFault
       \/ ~s.found /\ t \in SyncTypes /\ Set(w, [wk[w] EXCEPT !.pc = "expire"]) /\ NoFault
       \/ /\ s.found /\ s.ok
          /\ Set(w, [wk[w] EXCEPT !.payload = s.payload,
                                  !.pc = IF t = "RECONNECT" THEN "check" ELSE "collect"])
          /\ NoFault
    /\ UNCHANGED <<jobs, clock, profiles, sessions, browsers, budget, logins, items, call>>

\* updateProfileState(profile_id, 'EXPIRED') followed by throw SESSION_EXPIRED
Expire(w) ==
    /\ wk[w].pc = "expire"
    /\ \/ /\ profiles' = updateProfileState(profiles, wk[w].job.profile_id, "EXPIRED")
          /\ Set(w, Catch(wk[w], SESSION_EXPIRED))
          /\ NoFault
       \/ /\ Set(w, Catch(wk[w], DATABASE_ERROR))
          /\ Fault
          /\ UNCHANGED profiles
    /\ UNCHANGED <<jobs, clock, sessions, browsers, budget, logins, items, call>>

\* initBrowser: the browser process exists unless the launch itself failed
initBrowser(bs, run, l) == IF l = "nolaunch" THEN bs ELSE bs \cup {run}

\* case RECONNECT: client.checkSession(sessionPayload)
CheckSession(w) ==
    /\ wk[w].pc = "check"
    /\ \E l \in Launches, isValid \in BOOLEAN :
          /\ browsers' = initBrowser(browsers, Run(w), l)
          /\ LET r == [wk[w] EXCEPT !.browser = (l # "nolaunch")] IN
             IF l # "ok" THEN Set(w, Catch(r, InternalError)) /\ Fault
             ELSE IF isValid THEN Set(w, [r EXCEPT !.pc = "finally"]) /\ NoFault
             ELSE Set(w, [r EXCEPT !.pc = "expire"]) /\ NoFault
    /\ UNCHANGED <<jobs, clock, profiles, sessions, budget, logins, items, call>>

\* what a scrape can raise, by job type
ScrapeErrors(t) ==
    {IG_SCRAPE_FAILED, InternalError}
        \cup (IF t = "SYNC_PROFILE" THEN {SESSION_EXPIRED} ELSE {})

\* sync-class cases: client.initBrowser(sessionPayload) and the scrape
Collect(w) ==
    /\ wk[w].pc = "collect"
    /\ \E l \in Launches :
          /\ browsers' = initBrowser(browsers, Run(w), l)
          /\ LET r == [wk[w] EXCEPT !.browser = (l # "nolaunch")] IN
             IF l # "ok" THEN Set(w, Catch(r, InternalError)) /\ Fault
             ELSE \/ Set(w, [r EXCEPT !.pc = "store"]) /\ NoFault
                  \/ \E e \in ScrapeErrors(wk[w].job.job_type) :
                        /\ Set(w, Catch(r, e))
                        /\ IF e = InternalError THEN Fault ELSE NoFault
    /\ UNCHANGED <<jobs, clock, profiles, sessions, budget, logins, items, call>>

\* sync-class cases: the write of what was collected (profile update,
\* syncFollowers, syncMedia) and the processed-item count
Store(w) ==
    /\ wk[w].pc = "store"
    /\ \/ /\ Set(w, [wk[w] EXCEPT !.pc = "finally",
                      !.processedItems = IF wk[w].job.job_type = "SYNC_PROFILE" THEN 1 ELSE items])
          /\ NoFault
       \/ /\ Set(w, Catch(wk[w], IF wk[w].job.job_type = "SYNC_PROFILE"
                                  THEN DATABASE_ERROR ELSE InternalError))
          /\ Fault
    /\ UNCHANGED <<jobs, clock, profiles, sessions, browsers, budget, logins, items, call>>

\* case DERIVE_METRICS
Derive(w) ==
    /\ wk[w].pc = "derive"
    /\ \/ Set(w, [wk[w] EXCEPT !.pc = "finally", !.processedItems = 1]) /\ NoFault
       \/ /\ \E e \in {DATABASE_ERROR, InternalError} : Set(w, Catch(wk[w], e))
          /\ Fault
    /\ UNCHANGED <<jobs, clock, profiles, sessions, browsers, budget, logins, items, call>>

\* default: unknown job type
Default(w) ==
    /\ wk[w].pc = "default"
    /\ Set(w, Catch(wk[w], INVALID_INPUT))
    /\ UNCHANGED <<jobs, clock, profiles, sessions, browsers, budget, logins, faults, items, call>>

(* ----------------------- catch and finally of processJob --------------- *)
\* the profile-state update of the catch block; when it raises, finally still runs
CatchState(w) ==
    /\ wk[w].pc = "catchState"
    /\ LET state == IF wk[w].errorMessage = IG_2FA_REQUIRED THEN "NEEDS_2FA" ELSE "EXPIRED" IN
       \/ /\ profiles' = updateProfileState(profiles, wk[w].job.profile_id, state)
          /\ Set(w, [wk[w] EXCEPT !.pc = "finally"])
          /\ NoFault
       \/ /\ Set(w, [wk[w] EXCEPT !.pc = "finally", !.raised = TRUE])
          /\ Fault
          /\ UNCHANGED profiles
    /\ UNCHANGED <<jobs, clock, sessions, browsers, budget, logins, items, call>>

\* a close that leaves the browser process running
closeNothing(bs, run) == bs

\* InstagramClient.close when it succeeds: the browser process is gone
close(bs, run) == bs \ {run}

\* finally of processJob, up to updateJobStatus: close the browser unless the
\* error message names the second factor; when close raises, processJob raises
Finally(w) ==
    /\ wk[w].pc = "finally"
    /\ IF Is2FACase(wk[w].errorMessage) \/ ~wk[w].browser
       THEN /\ Set(w, [wk[w] EXCEPT !.pc = "finish"])
            /\ UNCHANGED <<browsers, faults>>
       ELSE \/ /\ browsers' = close(browsers, Run(w))
               /\ Set(w, [wk[w] EXCEPT !.pc = "finish", !.browser = FALSE])
               /\ NoFault
            \/ /\ Set(w, LoopCatch([wk[w] EXCEPT !.returned = TRUE, !.raised = TRUE]))
               /\ Fault
               /\ UNCHANGED browsers
    /\ UNCHANGED <<jobs, clock, profiles, sessions, budget, logins, items, call>>

\* updateJobStatus(job.id, jobStatus, processedItems, errorMessage), the last
\* statement of finally; then processJob returns, or raises what catch raised
updateJobStatus(w) ==
    /\ wk[w].pc = "finish"
    /\ \/ /\ jobs' = WriteJobStatus(jobs, wk[w].job.id, wk[w].jobStatus,
                                    wk[w].processedItems, wk[w].errorMessage)
          /\ IF wk[w].raised
             THEN Set(w, LoopCatch([wk[w] EXCEPT !.returned = TRUE]))
             ELSE Set(w, [wk[w] EXCEPT !.pc = "poll", !.returned = TRUE])
          /\ NoFault
       \/ /\ Set(w, LoopCatch([wk[w] EXCEPT !.returned = TRUE, !.raised = TRUE]))
          /\ Fault
          /\ UNCHANGED jobs
    /\ UNCHANGED <<clock, profiles, sessions, browsers, budget, logins, items, call>>

(* ------------------------------ workerLoop ----------------------------- *)
\* sleep(POLLING_INTERVAL_MS * 2) in the catch of workerLoop; the sleep that
\* ends every iteration is the wait at "poll" before the next select
Backoff(w) ==
    /\ wk[w].pc = "backoff"
    /\ Set(w, [wk[w] EXCEPT !.pc = "poll"])
    /\ UNCHANGED <<jobs, clock, profiles, sessions, browsers, budget, logins, faults, items, call>>

\* the steps of case LOGIN and case RECONNECT after the platform accepted a login
AfterLogin(w) ==
    \/ SaveSession(w) \/ SetConnected(w) \/ InsertFollowUp(w)

\* every other step of processJob
Handler(w) ==
    \/ Login(w)
    \/ GetSession(w) \/ Expire(w) \/ CheckSession(w) \/ Collect(w) \/ Store(w)
    \/ Derive(w) \/ Default(w)
    \/ CatchState(w) \/ Finally(w) \/ updateJobStatus(w)

processJob(w) == Handler(w) \/ AfterLogin(w)

workerLoop(w) ==
    \/ SelectJob(w) \/ MarkJob(w) \/ processJob(w) \/ Backoff(w)

(* ---------------------------- specifications --------------------------- *)
\* the state of the store and of the dispatcher instances in `running' when
\* they start; the accounts in `connected' have logged in before and their
\* session row holds the payload 1
InitWith(running, enqueues, adverse, accepted, connected) ==
    /\ jobs = <<>>
    /\ clock = 1
    /\ profiles = [p \in Profiles |-> IF p \in connected THEN "CONNECTED" ELSE "DISCONNECTED"]
    /\ \E iv \in IVs :
          sessions = [p \in Profiles |->
                        IF p \in connected
                        THEN saveEncryptedSession([q \in Profiles |-> NoSession],
                                                  p, OwnerOf(p), 1, iv)[p]
                        ELSE NoSession]
    /\ browsers = {}
    /\ budget = enqueues
    /\ logins = accepted
    /\ faults = adverse
    /\ items \in 0..MaxItems
    /\ wk = [w \in Workers |-> Locals(IF w \in running THEN "poll" ELSE "off")]
    /\ call = NoCall

\* one dispatcher instance, nothing in the store
Init == InitWith({"w1"}, MaxEnqueue, MaxFaults, MaxLogins, {})

Next ==
    \/ Enqueue
    \/ \E w \in Workers : workerLoop(w)

Spec == Init /\ [][Next]_vars

\* one dispatcher instance that is never stopped and always takes its next
\* step: every await of workerLoop settles; p1 may have logged in before
InitLive ==
    \E connected \in SUBSET {"p1"} :
        InitWith({"w1"}, LiveEnqueue, LiveFaults, MaxLogins, connected)

FairSpec == InitLive /\ [][Next]_vars /\ WF_vars(workerLoop("w1"))

\* the dispatcher process is stopped (crash, kill) wherever it is; the browser
\* it had launched is not closed by it
Crash(w) ==
    /\ wk[w].pc \notin {"off", "stopped"}
    /\ Set(w, Locals("stopped"))
    /\ Fault
    /\ UNCHANGED <<jobs, clock, profiles, sessions, browsers, budget, logins, items, call>>

\* the dispatcher process is started again: workerLoop from its beginning
Restart(w) ==
    /\ wk[w].pc = "stopped"
    /\ Set(w, Locals("poll"))
    /\ UNCHANGED <<jobs, clock, profiles, sessions, browsers, budget, logins, faults, items, call>>

\* two dispatcher instances on the same store, which can stop and be started
\* again; p1 may have logged in before and the platform accepts no new login,
\* so the steps of AfterLogin are never enabled
InitMulti ==
    \E connected \in SUBSET {"p1"} :
        InitWith(Workers, MultiEnqueue, MultiFaults, 0, connected)

NextMulti ==
    \/ Enqueue
    \/ \E w \in Workers :
          \/ SelectJob(w) \/ MarkJob(w) \/ Handler(w) \/ Backoff(w)
          \/ Crash(w) \/ Restart(w)

SpecMulti == InitMulti /\ [][NextMulti]_vars

\* client.close() rejects in the finally block: processJob raises before
\* updateJobStatus is called; no store operation has failed
CloseRaises(w) ==
    /\ wk[w].pc = "finally"
    /\ wk[w].browser /\ ~Is2FACase(wk[w].errorMessage)
    /\ Set(w, LoopCatch([wk[w] EXCEPT !.returned = TRUE, !.raised = TRUE]))
    /\ UNCHANGED <<jobs, clock, profiles, sessions, browsers, budget, logins, faults,
                   items, call>>

\* one dispatcher that keeps running on a store whose operations succeed:
\* no adverse event but the rejection of a browser release
InitStoreOk ==
    \E connected \in SUBSET {"p1"} :
        InitWith({"w1"}, LiveEnqueue, 0, MaxLogins, connected)

NextStoreOk == Next \/ CloseRaises("w1")

StoreOkSpec == InitStoreOk /\ [][NextStoreOk]_vars /\ WF_vars(workerLoop("w1"))

(* ------------------- InstagramClient.login, step by step --------------- *)
\* maxWaitMs of the manual second-factor wait
MaxWaitMs == 600000
\* waitForTimeout(2000) at the end of each poll
PollMs == 2000
\* time the visibility checks of one poll can take (their timeouts: 1000 and 3000)
CheckMs == {0, 4000}

\* a poll that takes no time
ElapseNothing(elapsed, d) == elapsed

\* Date.now() - startTime after one more poll; past the ceiling it makes no difference
Elapse(elapsed, d) ==
    IF elapsed + d + PollMs > MaxWaitMs THEN MaxWaitMs ELSE elapsed + d + PollMs

\* a call login(username, password, twoFaCode, showBrowser) at its first statement
LoginCall(twoFaCode, showBrowser) ==
    [fn |-> "login", pc |-> "initBrowser", twoFaCode |-> twoFaCode,
     showBrowser |-> showBrowser, browser |-> FALSE, submitted |-> FALSE,
     is2faRequired |-> FALSE, waited |-> FALSE, elapsed |-> 0, polls |-> 0,
     isLoggedIn |-> FALSE, error |-> NULL, result |-> NULL]

\* the dispatchers are not running and the store is empty
Aside(c) ==
    /\ jobs = <<>>
    /\ clock = 1
    /\ profiles = [p \in Profiles |-> "DISCONNECTED"]
    /\ sessions = [p \in Profiles |-> NoSession]
    /\ browsers = {}
    /\ budget = 0 /\ logins = 0 /\ faults = 0 /\ items = 0
    /\ wk = [w \in Workers |-> Locals("off")]
    /\ call = c

AtLogin(pc) == call.fn = "login" /\ call.pc = pc

\* a statement in the try block raises what is not an AppError
LoginRaise == call' = [call EXCEPT !.pc = "catch", !.error = "unexpected"]

\* await this.initBrowser(undefined, showBrowser), before the try block
LoginInitBrowser ==
    /\ AtLogin("initBrowser")
    /\ \E l \in Launches :
          call' = IF l = "ok"
                  THEN [call EXCEPT !.pc = "goto", !.browser = TRUE]
                  ELSE [call EXCEPT !.pc = "done", !.browser = (l # "nolaunch"),
                                    !.result = InternalError]
    /\ UNCHANGED dispatch

\* page.goto of the login page
LoginGoto ==
    /\ AtLogin("goto")
    /\ \/ call' = [call EXCEPT !.pc = "submit"]
       \/ LoginRaise
    /\ UNCHANGED dispatch

\* 1. fill the credentials and click submit
LoginSubmit ==
    /\ AtLogin("submit")
    /\ \/ call' = [call EXCEPT !.pc = "detect", !.submitted = TRUE]
       \/ LoginRaise
    /\ UNCHANGED dispatch

\* 2. the second-factor prompt: input field or page text
LoginDetect ==
    /\ AtLogin("detect")
    /\ \E has2FAInput, has2FAText \in BOOLEAN :
          LET is2faRequired == has2FAInput \/ has2FAText IN
          call' = [call EXCEPT !.is2faRequired = is2faRequired,
                      !.waited = is2faRequired /\ ~call.twoFaCode,
                      !.pc = IF ~is2faRequired THEN "check"
                             ELSE IF ~call.twoFaCode THEN "wait" ELSE "code"]
    /\ UNCHANGED dispatch

\* one evaluation of the condition of the manual wait and, when it holds, one poll
LoginPoll ==
    /\ AtLogin("wait")
    /\ IF ~(call.elapsed < MaxWaitMs)
       THEN call' = [call EXCEPT !.pc = "catch", !.error = IG_2FA_REQUIRED]
       ELSE \E isOn2FAPage, homeIndicators \in BOOLEAN, d \in CheckMs :
              LET c == [call EXCEPT !.polls = @ + 1] IN
              IF ~isOn2FAPage /\ homeIndicators
              THEN call' = [c EXCEPT !.pc = "check"]
              ELSE \/ call' = [c EXCEPT !.elapsed = Elapse(call.elapsed, d)]
                   \/ call' = [c EXCEPT !.pc = "catch", !.error = "unexpected"]
    /\ UNCHANGED dispatch

\* the supplied code is filled in and submitted
LoginCode ==
    /\ AtLogin("code")
    /\ \/ call' = [call EXCEPT !.pc = "check"]
       \/ LoginRaise
    /\ UNCHANGED dispatch

\* 3. the authenticated-home markers
LoginCheckHome ==
    /\ AtLogin("check")
    /\ \E isLoggedIn \in BOOLEAN :
          LET r == LoginCheck([isLoggedIn |-> isLoggedIn]) IN
          call' = IF r = "payload"
                  THEN [call EXCEPT !.pc = "capture", !.isLoggedIn = isLoggedIn]
                  ELSE [call EXCEPT !.pc = "catch", !.error = r]
    /\ UNCHANGED dispatch

\* 4. the save-info prompt, then return this.getSessionPayload(): the promise
\* is returned without await, so its rejection is not seen by the catch
LoginCapture ==
    /\ AtLogin("capture")
    /\ \/ call' = [call EXCEPT !.pc = "done", !.result = "payload"]
       \/ call' = [call EXCEPT !.pc = "done", !.result = InternalError]
       \/ LoginRaise
    /\ UNCHANGED dispatch

\* catch of login: close the browser unless the error is IG_2FA_REQUIRED, then
\* rethrow an AppError as it is and anything else as IG_LOGIN_FAILED
LoginCatch ==
    /\ AtLogin("catch")
    /\ IF call.error = IG_2FA_REQUIRED
       THEN call' = [call EXCEPT !.pc = "done", !.result = IG_2FA_REQUIRED]
       ELSE \/ call' = [call EXCEPT !.pc = "done", !.browser = FALSE,
                                    !.result = IG_LOGIN_FAILED]
            \/ call' = [call EXCEPT !.pc = "done", !.result = InternalError]
    /\ UNCHANGED dispatch

InitLogin == \E twoFaCode, showBrowser \in BOOLEAN : Aside(LoginCall(twoFaCode, showBrowser))

NextLogin ==
    \/ LoginInitBrowser \/ LoginGoto \/ LoginSubmit \/ LoginDetect \/ LoginPoll
    \/ LoginCode \/ LoginCheckHome \/ LoginCapture \/ LoginCatch

LoginSpec == InitLogin /\ [][NextLogin]_vars

(* ----------------------- InstagramClient.checkSession ------------------ *)
\* the cookies a stored session may hold and the user agents it may name
\* ("" stands for a payload without user_agent)
CookieNames == {"sessionid", "csrftoken", "mid"}
UserAgents == {"", "stored-agent"}
SessionPayloads == [cookies : SUBSET CookieNames, user_agent : UserAgents]

\* this.userAgent of InstagramClient
DefaultUserAgent == "default-agent"

CheckSessionCall(sessionPayload) ==
    [fn |-> "checkSession", pc |-> "launch", sessionPayload |-> sessionPayload,
     browser |-> FALSE, context |-> FALSE, page |-> FALSE,
     userAgent |-> NULL, cookies |-> {}, isLoggedIn |-> FALSE,
     raisedAt |-> NULL, result |-> NULL]

AtCheck(pc) == call.fn = "checkSession" /\ call.pc = pc

\* a statement outside the try block raises: checkSession raises
CheckRaise(at) ==
    call' = [call EXCEPT !.pc = "done", !.raisedAt = at, !.result = InternalError]

\* a catch that lets the error through
checkSessionRethrow(c, at) ==
    [c EXCEPT !.pc = "done", !.raisedAt = at, !.result = InternalError]

\* catch of checkSession: log and return false
checkSessionCatch(c, at) ==
    [c EXCEPT !.pc = "done", !.raisedAt = at, !.result = "false"]

\* initBrowser(sessionPayload): chromium.launch
CheckLaunch ==
    /\ AtCheck("launch")
    /\ \/ call' = [call EXCEPT !.pc = "newContext", !.browser = TRUE]
       \/ CheckRaise("launch")
    /\ UNCHANGED dispatch

\* initBrowser: browser.newContext with the stored user agent or the default
CheckNewContext ==
    /\ AtCheck("newContext")
    /\ \/ call' = [call EXCEPT !.pc = "addCookies", !.context = TRUE,
                       !.userAgent = IF call.sessionPayload.user_agent # ""
                                     THEN call.sessionPayload.user_agent
                                     ELSE DefaultUserAgent]
       \/ CheckRaise("newContext")
    /\ UNCHANGED dispatch

\* initBrowser: context.addCookies(sessionPayload.cookies)
CheckAddCookies ==
    /\ AtCheck("addCookies")
    /\ \/ call' = [call EXCEPT !.pc = "newPage", !.cookies = call.sessionPayload.cookies]
       \/ CheckRaise("addCookies")
    /\ UNCHANGED dispatch

\* initBrowser: context.newPage, then if (!this.page) return false
CheckNewPage ==
    /\ AtCheck("newPage")
    /\ \/ call' = [call EXCEPT !.pc = "goto", !.page = TRUE]
       \/ CheckRaise("newPage")
    /\ UNCHANGED dispatch

\* try: page.goto(baseUrl)
CheckGoto ==
    /\ AtCheck("goto")
    /\ \/ call' = [call EXCEPT !.pc = "isVisible"]
       \/ call' = checkSessionCatch(call, "goto")
    /\ UNCHANGED dispatch

\* try: isLoggedIn = page.isVisible('text="Create"'); return isLoggedIn
CheckIsVisible ==
    /\ AtCheck("isVisible")
    /\ \/ \E isLoggedIn \in BOOLEAN :
             call' = [call EXCEPT !.pc = "done", !.isLoggedIn = isLoggedIn,
                                  !.result = IF isLoggedIn THEN "true" ELSE "false"]
       \/ call' = checkSessionCatch(call, "isVisible")
    /\ UNCHANGED dispatch

InitCheck == \E sessionPayload \in SessionPayloads : Aside(CheckSessionCall(sessionPayload))

NextCheck ==
    \/ CheckLaunch \/ CheckNewContext \/ CheckAddCookies \/ CheckNewPage
    \/ CheckGoto \/ CheckIsVisible

CheckSpec == InitCheck /\ [][NextCheck]_vars

(* ------------- syncFollowers, syncMedia and deriveMetrics --------------- *)
\* upsert batches of one call
MaxBatches == 2

SyncOps == {"syncFollowers", "syncMedia", "deriveMetrics"}

\* a call of one of the three operations: batches is the number of upsert
\* batches its rows need, changes whether the relation differs from the
\* stored one, rows whether the store holds media with hashtags; ignored
\* collects the store calls whose error did not end the call
SyncCall(fn, batches, changes, rows) ==
    [fn |-> fn,
     pc |-> CASE fn = "syncFollowers" -> "fetch"
              [] fn = "syncMedia" -> "upsert"
              [] OTHER -> "profile",
     i |-> 0, batches |-> batches, changes |-> changes, rows |-> rows,
     ignored |-> {}, failed |-> NULL, result |-> NULL]

AtSync(fn, pc) == call.fn = fn /\ call.pc = pc

\* the error of a store call is logged, or not looked at, and the call goes on
Ignore(c, name, next) == [c EXCEPT !.ignored = @ \cup {name}, !.pc = next]

\* the error of a store call is thrown: the catch logs and rethrows
SyncRaise(c, name) == [c EXCEPT !.pc = "done", !.failed = name, !.result = "raised"]

SyncReturn(c) == [c EXCEPT !.pc = "done", !.result = "returned"]

\* syncFollowers: the stored relation is read; on an error there is no stored
\* relation to compare with, and every scraped user counts as a change
SfFetch ==
    /\ AtSync("syncFollowers", "fetch")
    /\ \/ call' = [call EXCEPT !.pc = "upsert"]
       \/ call' = Ignore([call EXCEPT !.changes = call.batches > 0],
                         "followers.select", "upsert")
    /\ UNCHANGED dispatch

\* syncFollowers: the upsert loop
SfUpsert ==
    /\ AtSync("syncFollowers", "upsert")
    /\ IF call.i < call.batches
       THEN \/ call' = [call EXCEPT !.i = @ + 1]
            \/ call' = SyncRaise(call, "followers.upsert")
       ELSE call' = [call EXCEPT !.pc = "changes"]
    /\ UNCHANGED dispatch

\* syncFollowers: the change events
SfChanges ==
    /\ AtSync("syncFollowers", "changes")
    /\ IF call.changes
       THEN \/ call' = [call EXCEPT !.pc = "snapshot"]
            \/ call' = Ignore(call, "follower_changes.insert", "snapshot")
       ELSE call' = [call EXCEPT !.pc = "snapshot"]
    /\ UNCHANGED dispatch

\* syncFollowers: the snapshot, then return
SfSnapshot ==
    /\ AtSync("syncFollowers", "snapshot")
    /\ \/ call' = SyncReturn(call)
       \/ call' = SyncReturn(Ignore(call, "followers_snapshots.insert", "done"))
    /\ UNCHANGED dispatch

\* syncMedia: the upsert loop, then return
SmUpsert ==
    /\ AtSync("syncMedia", "upsert")
    /\ IF call.i < call.batches
       THEN \/ call' = [call EXCEPT !.i = @ + 1]
            \/ call' = SyncRaise(call, "media.upsert")
       ELSE call' = SyncReturn(call)
    /\ UNCHANGED dispatch

\* deriveMetrics: the profile row
DmProfile ==
    /\ AtSync("deriveMetrics", "profile")
    /\ \/ call' = [call EXCEPT !.pc = "followers"]
       \/ call' = SyncRaise(call, "profiles.select")
    /\ UNCHANGED dispatch

\* deriveMetrics: the followers rows
DmFollowers ==
    /\ AtSync("deriveMetrics", "followers")
    /\ \/ call' = [call EXCEPT !.pc = "media"]
       \/ call' = Ignore(call, "followers.select", "media")
    /\ UNCHANGED dispatch

\* deriveMetrics: the media rows; on an error media is null
DmMedia ==
    /\ AtSync("deriveMetrics", "media")
    /\ \/ call' = [call EXCEPT !.pc = "previous"]
       \/ call' = Ignore([call EXCEPT !.rows = FALSE], "media.select", "previous")
    /\ UNCHANGED dispatch

\* deriveMetrics: the previous insight; its error is not read
DmPrevious ==
    /\ AtSync("deriveMetrics", "previous")
    /\ \/ call' = [call EXCEPT !.pc = "insights"]
       \/ call' = Ignore(call, "profile_insights_daily.select", "insights")
    /\ UNCHANGED dispatch

\* deriveMetrics: today's insight, then the hashtag part when there is media
\* with hashtags
DmInsights ==
    /\ AtSync("deriveMetrics", "insights")
    /\ \/ call' = IF call.rows /\ call.batches > 0
                  THEN [call EXCEPT !.pc = "delete"]
                  ELSE SyncReturn(call)
       \/ call' = SyncRaise(call, "profile_insights_daily.upsert")
    /\ UNCHANGED dispatch

\* deriveMetrics: the old hashtag rows are deleted; the result is not read
DmDelete ==
    /\ AtSync("deriveMetrics", "delete")
    /\ \/ call' = [call EXCEPT !.pc = "hashtags"]
       \/ call' = Ignore(call, "hashtags_metrics.delete", "hashtags")
    /\ UNCHANGED dispatch

\* deriveMetrics: the hashtag insert loop, then return
DmHashtags ==
    /\ AtSync("deriveMetrics", "hashtags")
    /\ IF call.i < call.batches
       THEN \/ call' = [call EXCEPT !.i = @ + 1]
            \/ call' = Ignore([call EXCEPT !.i = @ + 1], "hashtags_metrics.insert", "hashtags")
       ELSE call' = SyncReturn(call)
    /\ UNCHANGED dispatch

InitSync ==
    \E fn \in SyncOps, batches \in 0..MaxBatches, changes, rows \in BOOLEAN :
        /\ fn # "syncFollowers" => ~changes
        /\ fn # "deriveMetrics" => ~rows
        /\ Aside(SyncCall(fn, batches, changes, rows))

NextSync ==
    \/ SfFetch \/ SfUpsert \/ SfChanges \/ SfSnapshot
    \/ SmUpsert
    \/ DmProfile \/ DmFollowers \/ DmMedia \/ DmPrevious \/ DmInsights
    \/ DmDelete \/ DmHashtags

SyncSpec == InitSync /\ [][NextSync]_vars

(* ------------------ EncryptionService, call by call -------------------- *)
IV_LENGTH == 16
\* bytes of an aes-256 key
KEY_LENGTH == 32
\* the length the constructor asks of encryptionKeyHex
KEY_HEX_LENGTH == 64

\* a key string: its length and the number of leading pairs of hex digits
KeyHexes ==
    {[length |-> 62, pairs |-> 31], [length |-> 64, pairs |-> 32],
     [length |-> 64, pairs |-> 31], [length |-> 64, pairs |-> 0],
     [length |-> 66, pairs |-> 33], [length |-> 0, pairs |-> 0]}

\* Buffer.from(hex, 'hex') decodes pairs of hex digits up to the first pair
\* that is not one: the number of bytes of the buffer
BufferFromHex(h) == h.pairs

\* constructor(encryptionKeyHex)
EncryptionService(encryptionKeyHex) ==
    IF encryptionKeyHex.length # KEY_HEX_LENGTH
    THEN [ok |-> FALSE, error |-> INVALID_INPUT, encryptionKey |-> encryptionKeyHex]
    ELSE [ok |-> TRUE, error |-> NULL, encryptionKey |-> encryptionKeyHex]

\* cookies of a payload; expires is optional: {} is undefined
Cookies ==
    [name : {"sessionid"}, value : {"", "v"}, expires : {{}, {-1}}]
DecryptedPayloads ==
    [cookies : {<<>>} \cup {<<c>> : c \in Cookies},
     user_agent : {"", "agent"}, timestamp : {0, 1}]

\* JSON.stringify of a cookie: a property that is undefined is left out
StringifyCookie(c) ==
    IF c.expires = {}
    THEN [name |-> c.name, value |-> c.value]
    ELSE [name |-> c.name, value |-> c.value,
          expires |-> CHOOSE n \in c.expires : TRUE]

\* JSON.stringify(payload)
Stringify(payload) ==
    [cookies |-> [k \in DOMAIN payload.cookies |-> StringifyCookie(payload.cookies[k])],
     user_agent |-> payload.user_agent, timestamp |-> payload.timestamp]

ParseCookie(t) ==
    [name |-> t.name, value |-> t.value,
     expires |-> IF "expires" \in DOMAIN t THEN {t.expires} ELSE {}]

\* JSON.parse(text)
Parse(text) ==
    [cookies |-> [k \in DOMAIN text.cookies |-> ParseCookie(text.cookies[k])],
     user_agent |-> text.user_agent, timestamp |-> text.timestamp]

\* initialization vectors decrypt may be handed besides those of randomBytes
IvFields == IVs \cup {"short"}
IvBytes(iv) == IF iv \in IVs THEN IV_LENGTH ELSE 0

\* createCipheriv(ALGORITHM, key, iv) with update and final: raises on a
\* key that is not 32 bytes
Encipher(key, iv, text) ==
    IF BufferFromHex(key) # KEY_LENGTH \/ IvBytes(iv) # IV_LENGTH
    THEN [ok |-> FALSE, data |-> << >>]
    ELSE [ok |-> TRUE, data |-> <<"aes", key, iv, text>>]

\* createDecipheriv(ALGORITHM, key, iv) with update and final: the text
\* comes back only with the key and vector the data was made with; with
\* others the padding or the text is broken
Decipher(key, iv, data) ==
    IF BufferFromHex(key) # KEY_LENGTH \/ IvBytes(iv) # IV_LENGTH
    THEN [ok |-> FALSE, text |-> << >>]
    ELSE IF Len(data) = 4 /\ data[2] = key /\ data[3] = iv
         THEN [ok |-> TRUE, text |-> data[4]]
         ELSE [ok |-> FALSE, text |-> << >>]

\* encrypt(payload) of an instance with this key, randomBytes giving iv
encryptBy(key, payload, iv) ==
    LET c == Encipher(key, iv, Stringify(payload)) IN
    IF c.ok
    THEN [ok |-> TRUE, error |-> NULL,
          value |-> [iv |-> iv, encryptedData |-> c.data, algorithm |-> ALGORITHM]]
    ELSE [ok |-> FALSE, error |-> INTERNAL_SERVER_ERROR, value |-> << >>]

\* a decrypt that always uses the first vector
decryptFixedIv(key, encryptedPayload) ==
    IF encryptedPayload.algorithm # ALGORITHM
    THEN [ok |-> FALSE, error |-> INTERNAL_SERVER_ERROR, value |-> << >>]
    ELSE LET d == Decipher(key, "iv0", encryptedPayload.encryptedData) IN
         IF d.ok THEN [ok |-> TRUE, error |-> NULL, value |-> Parse(d.text)]
         ELSE [ok |-> FALSE, error |-> INTERNAL_SERVER_ERROR, value |-> << >>]

\* a decrypt that does not look at the algorithm field
decryptAnyAlgorithm(key, encryptedPayload) ==
    LET d == Decipher(key, encryptedPayload.iv, encryptedPayload.encryptedData) IN
    IF d.ok THEN [ok |-> TRUE, error |-> NULL, value |-> Parse(d.text)]
    ELSE [ok |-> FALSE, error |-> INTERNAL_SERVER_ERROR, value |-> << >>]

\* decrypt(encryptedPayload) of an instance with this key
decryptBy(key, encryptedPayload) ==
    IF encryptedPayload.algorithm # ALGORITHM
    THEN [ok |-> FALSE, error |-> INTERNAL_SERVER_ERROR, value |-> << >>]
    ELSE LET d == Decipher(key, encryptedPayload.iv, encryptedPayload.encryptedData) IN
         IF d.ok THEN [ok |-> TRUE, error |-> NULL, value |-> Parse(d.text)]
         ELSE [ok |-> FALSE, error |-> INTERNAL_SERVER_ERROR, value |-> << >>]

\* what the algorithm field of a stored row may hold
AlgorithmFields == {ALGORITHM, "aes-128-cbc", ""}

\* rows decrypt may be handed: the one encrypt returned, or one with another
\* algorithm field, vector or ciphertext
Stored(e) ==
    [iv : IvFields, algorithm : AlgorithmFields,
     encryptedData : {e.encryptedData, <<"garbage">>}]

EncCall(encryptionKeyHex) ==
    [fn |-> "EncryptionService", pc |-> "new", encryptionKeyHex |-> encryptionKeyHex,
     payload |-> << >>, encrypted |-> << >>, input |-> << >>, decrypted |-> << >>,
     error |-> NULL, raisedBy |-> NULL]

AtEnc(pc) == call.fn = "EncryptionService" /\ call.pc = pc

\* new EncryptionService(encryptionKeyHex)
EncNew ==
    /\ AtEnc("new")
    /\ LET r == EncryptionService(call.encryptionKeyHex) IN
       call' = IF r.ok THEN [call EXCEPT !.pc = "instance"]
               ELSE [call EXCEPT !.pc = "done", !.error = r.error, !.raisedBy = "constructor"]
    /\ UNCHANGED dispatch

\* instance.encrypt(payload)
EncEncrypt ==
    /\ call.fn = "EncryptionService" /\ call.pc \in {"instance", "encrypted", "decrypted"}
    /\ \E payload \in DecryptedPayloads, iv \in IVs :
          LET r == encryptBy(call.encryptionKeyHex, payload, iv) IN
          call' = IF r.ok
                  THEN [call EXCEPT !.pc = "encrypted", !.payload = payload,
                                    !.encrypted = r.value, !.input = << >>,
                                    !.decrypted = << >>]
                  ELSE [call EXCEPT !.pc = "done", !.error = r.error, !.raisedBy = "encrypt"]
    /\ UNCHANGED dispatch

\* instance.decrypt(encryptedPayload)
EncDecrypt ==
    /\ AtEnc("encrypted")
    /\ \E e \in Stored(call.encrypted) :
          LET r == decryptBy(call.encryptionKeyHex, e) IN
          call' = IF r.ok
                  THEN [call EXCEPT !.pc = "decrypted", !.input = e, !.decrypted = r.value]
                  ELSE [call EXCEPT !.pc = "done", !.input = e, !.error = r.error,
                                    !.raisedBy = "decrypt"]
    /\ UNCHANGED dispatch

InitEnc == \E encryptionKeyHex \in KeyHexes : Aside(EncCall(encryptionKeyHex))

NextEnc == EncNew \/ EncEncrypt \/ EncDecrypt

EncSpec == InitEnc /\ [][NextEnc]_vars

(* -------- InstagramClient.scrapeFollowers, fetchUserListViaGraphQL ------ *)
\* requests of one list, edges of one page, and the largest cap tried
MaxPages == 2
MaxEdges == 2
MaxCount == 3

\* maxCount = -1: no cap
NoCap == -1

\* waitForTimeout between two requests of a list, and between the two lists
PageDelayMs == 1500
ListDelayMs == 3000

\* nodes of the edges of a response; the second has no id
Nodes == {[id |-> "1", username |-> "a"], [id |-> "", username |-> "b"]}

\* users.push({ ig_id: node.id || node.username, username: node.username, ... })
UserRecord(node) ==
    [ig_id |-> IF node.id # "" THEN node.id ELSE node.username,
     username |-> node.username]

UserRecords(edges) == [k \in DOMAIN edges |-> UserRecord(edges[k])]

\* what one request can answer: a page of edges with its page_info
GraphPages ==
    [edges : UNION {[1..n -> Nodes] : n \in 0..MaxEdges},
     has_next_page : BOOLEAN, end_cursor : {NULL, "cursor"}]

NoPage == [edges |-> << >>, has_next_page |-> FALSE, end_cursor |-> NULL]

\* the frame of fetchUserListViaGraphQL(userId, type, maxCount) inside
\* scrapeFollowers: followers is the list already returned, fetched the
\* records of all pages answered for this list, issued the requests of the
\* whole scrape, waited the delay passed since the last request
FetchList(type, maxCount, followers, issued, waited) ==
    [fn |-> "fetchUserListViaGraphQL", pc |-> "while", type |-> type,
     maxCount |-> maxCount, users |-> << >>, hasNextPage |-> TRUE,
     afterCursor |-> NULL, requests |-> 0, page |-> NoPage, stopped |-> NULL,
     fetched |-> << >>, followers |-> followers, issued |-> issued,
     waited |-> waited, raised |-> FALSE]

FetchCall(maxCount) == FetchList("followers", maxCount, << >>, 0, 0)

AtFetch(pc) == call.fn = "fetchUserListViaGraphQL" /\ call.pc = pc

\* where a list that has ended goes: back into scrapeFollowers
Ended(c) == IF c.type = "followers" THEN "between" ELSE "done"

\* a while condition that reads the page_info only
WhileHasNext(c) == c.hasNextPage

\* hasNextPage && (maxCount === -1 || users.length < maxCount)
WhileGoesOn(c) ==
    c.hasNextPage /\ (c.maxCount = NoCap \/ Len(c.users) < c.maxCount)

\* a loop over the edges that pushes every one of them
PushAll(users, edges, maxCount) == users \o UserRecords(edges)

\* for (const edge of edges): push, and break when the cap is reached
RECURSIVE PushEdges(_, _, _)
PushEdges(users, edges, maxCount) ==
    IF edges = << >> THEN users
    ELSE LET u == Append(users, UserRecord(Head(edges))) IN
         IF maxCount # NoCap /\ Len(u) >= maxCount THEN u
         ELSE PushEdges(u, Tail(edges), maxCount)

\* a wait that returns at once
NoDelay(c, ms) == c

\* await this.page.waitForTimeout(ms)
Delay(c, ms) == [c EXCEPT !.waited = ms]

\* a catch that throws the error on
FetchRethrow(c) == [c EXCEPT !.pc = "done", !.stopped = "error", !.raised = TRUE]

\* catch of the loop body: log and break, then return users
FetchCatch(c) == [c EXCEPT !.pc = Ended(c), !.stopped = "error"]

\* one pass of the while body: the request, the edges, the page_info, and
\* the delay before the next pass; only a list without cap is cut short
FetchPage ==
    /\ AtFetch("while") /\ WhileGoesOn(call)
    /\ call.maxCount = NoCap => call.requests < MaxPages
    /\ LET c == [call EXCEPT !.requests = @ + 1, !.issued = @ + 1, !.waited = 0] IN
       \/ call' = FetchCatch(c)
       \/ \E page \in GraphPages :
             IF page.edges = << >>
             THEN call' = [c EXCEPT !.pc = Ended(c), !.page = page, !.stopped = "empty"]
             ELSE LET d == [c EXCEPT !.page = page,
                                     !.fetched = @ \o UserRecords(page.edges),
                                     !.users = PushEdges(call.users, page.edges, call.maxCount),
                                     !.hasNextPage = page.has_next_page,
                                     !.afterCursor = page.end_cursor] IN
                  IF ~d.hasNextPage \/ d.afterCursor = NULL
                  THEN call' = [d EXCEPT !.pc = Ended(d), !.stopped = "end"]
                  ELSE \/ call' = Delay(d, PageDelayMs)
                       \/ call' = [d EXCEPT !.pc = Ended(d), !.stopped = "delay"]
    /\ UNCHANGED dispatch

\* the while condition is false: return users
FetchReturn ==
    /\ AtFetch("while") /\ ~WhileGoesOn(call)
    /\ call' = [call EXCEPT !.pc = Ended(call), !.stopped = "while"]
    /\ UNCHANGED dispatch

\* scrapeFollowers between its two lists: the followers are kept, the delay
\* passes, and the following list starts; a wait that raises ends the scrape
ScrapeFollowing ==
    /\ AtFetch("between")
    /\ \/ call' = Delay(FetchList("following", call.maxCount, call.users,
                                  call.issued, call.waited), ListDelayMs)
       \/ call' = [call EXCEPT !.pc = "done", !.raised = TRUE]
    /\ UNCHANGED dispatch

InitFetch == \E maxCount \in {NoCap} \cup 0..MaxCount : Aside(FetchCall(maxCount))

NextFetch == FetchPage \/ FetchReturn \/ ScrapeFollowing

FetchSpec == InitFetch /\ [][NextFetch]_vars

(* ---------------- syncFollowers: merge, diff and snapshot --------------- *)
\* external ids; the lists of the small cases are drawn from the first two
ExternalIds == {"A", "B", "C", "D", "E", "F"}
SmallIds == {"A", "B"}

\* longest scraped list of the small cases
MaxList == 2

\* the scraped record of an id
ScrapedUser(id) == [ig_id |-> id, username |-> id]

ListOf(ids) == [k \in DOMAIN ids |-> ScrapedUser(ids[k])]

\* scraped lists: every sequence of small ids, repeated ids included
ScrapedLists == {ListOf(ids) : ids \in UNION {[1..n -> SmallIds] : n \in 0..MaxList}}

\* a row of the followers table, keyed by follower_ig_id
FollowerRow(isFollower, isFollowing, username) ==
    [is_follower |-> isFollower, is_following |-> isFollowing,
     follower_username |-> username]

Flags == {<<TRUE, FALSE>>, <<FALSE, TRUE>>, <<TRUE, TRUE>>}

\* the followers tables of one profile over the small ids
SmallTables ==
    UNION {[ids -> {FollowerRow(f[1], f[2], "stored") : f \in Flags}] : ids \in SUBSET SmallIds}

\* previous followers {A, B, C}, previous following {B, C, D}
ExampleTable ==
    [id \in {"A", "B", "C", "D"} |->
        FollowerRow(id \in {"A", "B", "C"}, id \in {"B", "C", "D"}, "stored")]
\* current followers {B, C, E}, current following {B, D, F}
ExampleFollowers == ListOf(<<"B", "C", "E">>)
ExampleFollowing == ListOf(<<"B", "D", "F">>)

\* the elements of a set in some order (the order of rows a select returns)
RECURSIVE SeqOf(_)
SeqOf(S) ==
    IF S = {} THEN << >>
    ELSE LET x == CHOOSE x \in S : TRUE IN <<x>> \o SeqOf(S \ {x})

RECURSIVE Distinct(_)
\* the list itself, repeated ids kept
Same(ids) == ids

\* new Set(ids) and Array.from of it: first occurrences, in order
Distinct(ids) ==
    IF ids = << >> THEN << >>
    ELSE LET front == Distinct(SubSeq(ids, 1, Len(ids) - 1))
             last == ids[Len(ids)] IN
         IF \E k \in DOMAIN front : front[k] = last THEN front ELSE Append(front, last)

IdsOf(data) == [k \in DOMAIN data |-> data[k].ig_id]
Has(ids, id) == \E k \in DOMAIN ids : ids[k] = id

\* a filter that keeps what it should drop
WithoutSwapped(ids, other) == SelectSeq(other, LAMBDA id : ~Has(ids, id))

\* list.filter(id => !other.has(id))
Without(ids, other) == SelectSeq(ids, LAMBDA id : ~Has(other, id))

\* a Map as the sequence of its values in insertion order
MapHas(map, id) == \E k \in DOMAIN map : map[k].ig_id = id
MapGet(map, id) == map[CHOOSE k \in DOMAIN map : map[k].ig_id = id]

\* a set that adds an entry whether the key is there or not
MapPush(map, user) == Append(map, user)

\* allUsersMap.set(user.ig_id, user)
MapSet(map, user) ==
    IF MapHas(map, user.ig_id)
    THEN [k \in DOMAIN map |-> IF map[k].ig_id = user.ig_id THEN user ELSE map[k]]
    ELSE Append(map, user)

\* the entry of a following that is no follower
FollowingOnly(following) ==
    [ig_id |-> following.ig_id, username |-> following.username,
     is_follower |-> FALSE, is_following |-> TRUE, is_following_back |-> FALSE]

\* followersData.forEach(follower => allUsersMap.set(...))
RECURSIVE AddFollowers(_, _, _)
AddFollowers(map, followersData, newFollowingIds) ==
    IF followersData = << >> THEN map
    ELSE LET follower == Head(followersData) IN
         AddFollowers(
             MapSet(map, [ig_id |-> follower.ig_id, username |-> follower.username,
                          is_follower |-> TRUE,
                          is_following |-> Has(newFollowingIds, follower.ig_id),
                          is_following_back |-> Has(newFollowingIds, follower.ig_id)]),
             Tail(followersData), newFollowingIds)

\* followingData.forEach(following => merge with the entry, or set a new one)
RECURSIVE AddFollowing(_, _)
AddFollowing(map, followingData) ==
    IF followingData = << >> THEN map
    ELSE LET following == Head(followingData) IN
         AddFollowing(
             IF MapHas(map, following.ig_id)
             THEN [k \in DOMAIN map |->
                     IF map[k].ig_id = following.ig_id
                     THEN [map[k] EXCEPT !.is_following = TRUE, !.is_following_back = TRUE]
                     ELSE map[k]]
             ELSE MapSet(map, FollowingOnly(following)),
             Tail(followingData))

\* allUsersMap of syncFollowers
Merge(followersData, followingData) ==
    AddFollowing(AddFollowers(<< >>, followersData, Distinct(IdsOf(followingData))),
                 followingData)

\* upsert of followersToUpsert on (profile_id, follower_ig_id): rows of ids
\* that are in neither list stay as they are
Upsert(table, map) ==
    [id \in DOMAIN table \cup {map[k].ig_id : k \in DOMAIN map} |->
        IF MapHas(map, id)
        THEN FollowerRow(MapGet(map, id).is_follower, MapGet(map, id).is_following,
                         MapGet(map, id).username)
        ELSE table[id]]

ChangeEvent(id, username, type) ==
    [follower_ig_id |-> id, follower_username |-> username, change_type |-> type]

\* events of the ids of a list that are in allUsersMap
EventsFromMap(ids, map, type) ==
    LET found == SelectSeq(ids, LAMBDA id : MapHas(map, id)) IN
    [k \in DOMAIN found |-> ChangeEvent(found[k], MapGet(map, found[k]).username, type)]

\* events of the ids of a list that are in currentFollowers
EventsFromRows(ids, table, type) ==
    LET found == SelectSeq(ids, LAMBDA id : id \in DOMAIN table) IN
    [k \in DOMAIN found |-> ChangeEvent(found[k], table[found[k]].follower_username, type)]

\* everything syncFollowers computes from the rows it read and the two lists
RelationDiff(table, followersData, followingData) ==
    LET rowIds == SeqOf(DOMAIN table)
        currentFollowerIds == SelectSeq(rowIds, LAMBDA id : table[id].is_follower)
        currentFollowingIds == SelectSeq(rowIds, LAMBDA id : table[id].is_following)
        newFollowerIds == Distinct(IdsOf(followersData))
        newFollowingIds == Distinct(IdsOf(followingData))
        allUsersMap == Merge(followersData, followingData)
        newFollowersList == Without(newFollowerIds, currentFollowerIds)
        lostFollowersList == Without(currentFollowerIds, newFollowerIds)
        newFollowingList == Without(newFollowingIds, currentFollowingIds)
        stoppedFollowingList == Without(currentFollowingIds, newFollowingIds)
    IN [followersToUpsert |-> allUsersMap,
        changes |-> EventsFromMap(newFollowersList, allUsersMap, "NEW_FOLLOWER")
                    \o EventsFromRows(lostFollowersList, table, "UNFOLLOWED")
                    \o EventsFromMap(newFollowingList, allUsersMap, "STARTED_FOLLOWING")
                    \o EventsFromRows(stoppedFollowingList, table, "STOPPED_FOLLOWING"),
        snapshot |-> [total_followers |-> Len(followersData),
                      total_following |-> Len(followingData),
                      new_followers |-> Len(newFollowersList),
                      lost_followers |-> Len(lostFollowersList),
                      non_followers |->
                          Len(SelectSeq(allUsersMap,
                                        LAMBDA u : u.is_following /\ ~u.is_follower))]]

\* the followers table of one profile and the last sync run on it
DiffCall(table) ==
    [fn |-> "syncFollowers:diff", table |-> table, previous |-> table, synced |-> FALSE,
     followersData |-> << >>, followingData |-> << >>,
     followersToUpsert |-> << >>, changes |-> << >>,
     snapshot |-> [total_followers |-> 0, total_following |-> 0, new_followers |-> 0,
                   lost_followers |-> 0, non_followers |-> 0]]

\* a run of syncFollowers in which every store call succeeds
SyncRelations ==
    /\ call.fn = "syncFollowers:diff"
    /\ \E lists \in (ScrapedLists \X ScrapedLists) \cup {<<ExampleFollowers, ExampleFollowing>>} :
          LET r == RelationDiff(call.table, lists[1], lists[2]) IN
          call' = [call EXCEPT !.previous = call.table, !.synced = TRUE,
                               !.followersData = lists[1], !.followingData = lists[2],
                               !.followersToUpsert = r.followersToUpsert,
                               !.changes = r.changes, !.snapshot = r.snapshot,
                               !.table = Upsert(call.table, r.followersToUpsert)]
    /\ UNCHANGED dispatch

InitDiff == \E table \in SmallTables \cup {ExampleTable} : Aside(DiffCall(table))

NextDiff == SyncRelations

DiffSpec == InitDiff /\ [][NextDiff]_vars

(* --------- case SYNC_FOLLOWERS: the call of syncFollowers -------------- *)
\* a parameter for which the caller passed no argument, and one that got a value
Undefined == << >>
Passed(v) == <<v>>

\* the source holds class SupabaseService twice: with the merge and diff of
\* the two lists, and as a placeholder that returns the length of its list
ServiceCopies == {"full", "placeholder"}

\* processJob at case SYNC_FOLLOWERS when scrapeFollowers has returned
HandOverCall(copy, followers, following) ==
    [fn |-> "processJob:SYNC_FOLLOWERS", pc |-> "scraped", copy |-> copy,
     followers |-> followers, following |-> following,
     followersData |-> Undefined, followingData |-> Undefined,
     jobStatus |-> "COMPLETED", errorMessage |-> NULL, processedItems |-> 0,
     row |-> [status |-> "RUNNING", processed_items |-> 0, error_message |-> NULL]]

AtHandOver(pc) == call.fn = "processJob:SYNC_FOLLOWERS" /\ call.pc = pc

\* syncFollowers(job.profile_id, job.user_id, [...followers, ...following]):
\* one list is passed, the fourth parameter gets no argument
CallSyncFollowers ==
    /\ AtHandOver("scraped")
    /\ call' = [call EXCEPT !.pc = "called",
                            !.followersData = Passed(call.followers \o call.following),
                            !.followingData = Undefined]
    /\ UNCHANGED dispatch

\* syncFollowers of the full copy: followingData.length is read in the first
\* statement, outside the try block; the error is not an AppError
SyncFollowersFull ==
    /\ AtHandOver("called") /\ call.copy = "full"
    /\ call' = IF call.followingData = Undefined
               THEN [call EXCEPT !.pc = "finally", !.jobStatus = "FAILED",
                                 !.errorMessage = InternalError]
               ELSE [call EXCEPT !.pc = "finally",
                                 !.processedItems =
                                     Len(Merge(call.followersData[1],
                                               call.followingData[1]))]
    /\ UNCHANGED dispatch

\* syncFollowers of the placeholder copy
SyncFollowersPlaceholder ==
    /\ AtHandOver("called") /\ call.copy = "placeholder"
    /\ call' = [call EXCEPT !.pc = "finally", !.processedItems = Len(call.followersData[1])]
    /\ UNCHANGED dispatch

\* finally of processJob: the terminal row
HandOverFinally ==
    /\ AtHandOver("finally")
    /\ call' = [call EXCEPT !.pc = "done",
                            !.row = [status |-> call.jobStatus,
                                     processed_items |-> call.processedItems,
                                     error_message |-> call.errorMessage]]
    /\ UNCHANGED dispatch

InitHandOver ==
    \E copy \in ServiceCopies, followers \in ScrapedLists, following \in ScrapedLists :
        Aside(HandOverCall(copy, followers, following))

NextHandOver ==
    CallSyncFollowers \/ SyncFollowersFull \/ SyncFollowersPlaceholder \/ HandOverFinally

HandOverSpec == InitHandOver /\ [][NextHandOver]_vars

(* ------------- deriveMetrics: daily insight and hashtag statistics ------ *)
\* days on which the operation runs
MaxDays == 2
Dates == 1..MaxDays

\* values of profiles.followers_count
FollowerCounts == {0, 2, 1000}

\* a JavaScript number that is a ratio of integers, in lowest terms
RECURSIVE GCD(_, _)
GCD(a, b) == IF b = 0 THEN a ELSE GCD(b, a % b)

Fraction(num, den) ==
    LET g == GCD(num, den) IN [num |-> num \div g, den |-> den \div g]

Whole(n) == [num |-> n, den |-> 1]
Over(q, n) == Fraction(q.num, q.den * n)
Times(q, n) == Fraction(q.num * n, q.den)

\* a token of a caption: a word, with or without the '#' marker in front
Token(marker, word) == [marker |-> marker, word |-> word]
Word(word) == Token(FALSE, word)
Hash(word) == Token(TRUE, word)

\* caption.match(/#\w+/g) and h.substring(1) on every match
HashtagsOf(caption) ==
    LET hashtagMatches == SelectSeq(caption, LAMBDA t : t.marker)
    IN [k \in DOMAIN hashtagMatches |-> Word(hashtagMatches[k].word)]

\* a scraped content item as syncMedia writes it; timestamp is the instant
\* taken_at_timestamp in whole seconds
Post(media_id, caption, likes, comments, timestamp) ==
    [ig_media_id |-> media_id, hashtags |-> HashtagsOf(caption),
     likes_count |-> likes, comments_count |-> comments, timestamp |-> timestamp]

\* "Great day #sun #fun" with 10 likes and 2 comments, "#sun again" with 5 and 1
GreatDay == Post("m1", <<Word("Great"), Word("day"), Hash("sun"), Hash("fun")>>, 10, 2, 2)
SunAgain == Post("m2", <<Hash("sun"), Word("again")>>, 5, 1, 1)

\* the scraped forms of two content items: the caption is edited between scrapes
SmallPosts ==
    {GreatDay, SunAgain,
     Post("m1", <<Word("day")>>, 10, 2, 2),
     Post("m1", <<Hash("sun"), Hash("sun")>>, 10, 2, 2),
     Post("m2", << >>, 5, 1, 1)}

\* five content items with a total engagement of 500
FiveItems ==
    LET ids == <<"e1", "e2", "e3", "e4", "e5">>
    IN [k \in 1..5 |-> Post(ids[k], <<Word("day")>>, 90, 10, 2 + k)]

\* the lists of content items one scrape returns
MediaLists == {<<post>> : post \in SmallPosts} \cup {<<GreatDay, SunAgain>>, FiveItems}

\* upsert of one row with onConflict 'ig_media_id'
UpsertPost(media, post) ==
    IF \E k \in DOMAIN media : media[k].ig_media_id = post.ig_media_id
    THEN [k \in DOMAIN media |->
             IF media[k].ig_media_id = post.ig_media_id THEN post ELSE media[k]]
    ELSE Append(media, post)

RECURSIVE UpsertMedia(_, _)
UpsertMedia(media, mediaData) ==
    IF mediaData = << >> THEN media
    ELSE UpsertMedia(UpsertPost(media, Head(mediaData)), Tail(mediaData))

\* media.reduce((sum, m) => sum + (m.likes_count || 0), 0)
RECURSIVE TotalLikes(_)
TotalLikes(media) ==
    IF media = << >> THEN 0 ELSE Head(media).likes_count + TotalLikes(Tail(media))

RECURSIVE TotalComments(_)
TotalComments(media) ==
    IF media = << >> THEN 0 ELSE Head(media).comments_count + TotalComments(Tail(media))

\* the rate over the content items alone
RatePerItem(totalEngagement, postsCount, followersCount) ==
    IF postsCount > 0 THEN Times(Over(Whole(totalEngagement), postsCount), 100) ELSE Whole(0)

EngagementRate(totalEngagement, postsCount, followersCount) ==
    IF followersCount > 0 /\ postsCount > 0
    THEN Times(Over(Over(Whole(totalEngagement), postsCount), followersCount), 100)
    ELSE Whole(0)

\* a row of profile_insights_daily, keyed by its date
Insight(followersCount, followersGrowth, engagementRate) ==
    [followers_count |-> followersCount, followers_growth |-> followersGrowth,
     engagement_rate |-> engagementRate]

\* .order('date', { ascending: false }).limit(1)
PreviousInsights(insights) ==
    IF DOMAIN insights = {} THEN << >>
    ELSE <<insights[CHOOSE d \in DOMAIN insights : \A e \in DOMAIN insights : e <= d]>>

\* previousInsights?.[0]?.followers_count || followersCount
PreviousFollowersCount(previousInsights, followersCount) ==
    IF previousInsights # << >> /\ previousInsights[1].followers_count # 0
    THEN previousInsights[1].followers_count
    ELSE followersCount

FollowersGrowth(previousInsights, followersCount) ==
    followersCount - PreviousFollowersCount(previousInsights, followersCount)

\* tag.startsWith('#') ? tag : `#${tag}`
CleanTag(tag) == IF tag.marker THEN tag ELSE Hash(tag.word)

\* hashtagStats.set(cleanTag, ...) for one tag of one post
SetStats(hashtagStats, cleanTag, post) ==
    IF cleanTag \in DOMAIN hashtagStats
    THEN LET current == hashtagStats[cleanTag] IN
         [hashtagStats EXCEPT ![cleanTag] =
             [count |-> current.count + 1,
              totalLikes |-> current.totalLikes + post.likes_count,
              totalComments |-> current.totalComments + post.comments_count,
              firstUsed |-> IF post.timestamp < current.firstUsed
                            THEN post.timestamp ELSE current.firstUsed,
              lastUsed |-> IF post.timestamp > current.lastUsed
                           THEN post.timestamp ELSE current.lastUsed]]
    ELSE hashtagStats @@
         (cleanTag :> [count |-> 1, totalLikes |-> post.likes_count,
                       totalComments |-> post.comments_count,
                       firstUsed |-> post.timestamp, lastUsed |-> post.timestamp])

\* hashtags.forEach over the tags of one post
RECURSIVE AddTags(_, _, _)
AddTags(hashtagStats, hashtags, post) ==
    IF hashtags = << >> THEN hashtagStats
    ELSE AddTags(SetStats(hashtagStats, CleanTag(Head(hashtags)), post), Tail(hashtags), post)

\* media.forEach over the posts
RECURSIVE HashtagStats(_, _)
HashtagStats(hashtagStats, media) ==
    IF media = << >> THEN hashtagStats
    ELSE HashtagStats(AddTags(hashtagStats, Head(media).hashtags, Head(media)), Tail(media))

\* the rows of hashtags_metrics, keyed by hashtag
HashtagMetrics(hashtagStats) ==
    [tag \in DOMAIN hashtagStats |->
        LET stats == hashtagStats[tag]
            totalEngagement == stats.totalLikes + stats.totalComments
        IN [usage_count |-> stats.count,
            total_engagement |-> totalEngagement,
            avg_engagement |-> Over(Whole(totalEngagement), stats.count),
            first_used |-> stats.firstUsed,
            last_used |-> stats.lastUsed]]

\* the store of one profile and the locals of the last run of deriveMetrics
MetricsCall ==
    [fn |-> "deriveMetrics:compute", followers_count |-> 0, media |-> << >>,
     insights |-> << >>, hashtags_metrics |-> << >>, today |-> 1,
     derived |-> FALSE, previousInsights |-> << >>]

AtMetrics == call.fn = "deriveMetrics:compute"

\* SYNC_PROFILE writes the scraped counter
UpdateProfile ==
    /\ AtMetrics
    /\ \E count \in FollowerCounts :
          /\ count # call.followers_count
          /\ call' = [call EXCEPT !.followers_count = count, !.derived = FALSE]
    /\ UNCHANGED dispatch

\* syncMedia with the content items of one scrape
SyncMedia ==
    /\ AtMetrics
    /\ \E mediaData \in MediaLists :
          /\ UpsertMedia(call.media, mediaData) # call.media
          /\ call' = [call EXCEPT !.media = UpsertMedia(call.media, mediaData),
                                  !.derived = FALSE]
    /\ UNCHANGED dispatch

\* new Date() moves to the next day
NextDay ==
    /\ AtMetrics
    /\ call.today < MaxDays
    /\ call' = [call EXCEPT !.today = @ + 1, !.derived = FALSE]
    /\ UNCHANGED dispatch

\* a run of deriveMetrics in which every store call succeeds
DeriveMetrics ==
    /\ AtMetrics
    /\ LET media == call.media
           totalEngagement == TotalLikes(media) + TotalComments(media)
           postsCount == Len(media)
           followersCount == call.followers_count
           engagementRate == EngagementRate(totalEngagement, postsCount, followersCount)
           previousInsights == PreviousInsights(call.insights)
           followersGrowth == FollowersGrowth(previousInsights, followersCount)
           row == Insight(followersCount, followersGrowth, engagementRate)
           hashtagMetrics == HashtagMetrics(HashtagStats(<< >>, media))
       IN call' = [call EXCEPT
                      !.previousInsights = previousInsights,
                      !.insights = IF call.today \in DOMAIN call.insights
                                   THEN [call.insights EXCEPT ![call.today] = row]
                                   ELSE call.insights @@ (call.today :> row),
                      !.hashtags_metrics = IF Len(media) > 0 /\ DOMAIN hashtagMetrics # {}
                                           THEN hashtagMetrics ELSE @,
                      !.derived = TRUE]
    /\ UNCHANGED dispatch

InitMetrics == Aside(MetricsCall)

NextMetrics == UpdateProfile \/ SyncMedia \/ NextDay \/ DeriveMetrics

MetricsSpec == InitMetrics /\ [][NextMetrics]_vars

(* ------------------- enqueueJob and the follow-up batch ---------------- *)
CONFLICT == "CONFLICT"

\* concurrent callers of enqueueJob
Enqueuers == {"e1", "e2"}

\* the job types the callers ask for
EnqueuedTypes == {"LOGIN", "SYNC_PROFILE"}

\* rows of sync_jobs
MaxRows == 6

QueueRow(job_type, status) == [job_type |-> job_type, status |-> status]

\* select id, status where profile_id, job_type match and status in (PENDING, RUNNING)
ExistingJobs(rows, job_type) ==
    {k \in DOMAIN rows : rows[k].job_type = job_type /\ rows[k].status \in {"PENDING", "RUNNING"}}

\* a caller of enqueueJob: payload, position and what it was answered
Enqueuer(pc, job_type, result) == [pc |-> pc, job_type |-> job_type, result |-> result]

\* the sync_jobs rows of one profile, the callers of enqueueJob and the one
\* dispatcher: running is the row it has claimed, idx its place in the
\* follow-up loop
EnqueueCall ==
    [fn |-> "enqueueJob", rows |-> << >>,
     by |-> [e \in Enqueuers |-> Enqueuer("idle", NULL, NULL)],
     running |-> 0, idx |-> 0]

AtEnqueue(e, pc) == call.fn = "enqueueJob" /\ call.by[e].pc = pc

\* enqueueJob(payload) is called
EnqStart(e) ==
    /\ call.fn = "enqueueJob"
    /\ call.by[e].pc \in {"idle", "returned"}
    /\ \E t \in EnqueuedTypes : call' = [call EXCEPT !.by[e] = Enqueuer("select", t, NULL)]
    /\ UNCHANGED dispatch

\* the check for a PENDING or RUNNING job of the same type
EnqSelect(e) ==
    /\ AtEnqueue(e, "select")
    /\ \/ call' = [call EXCEPT !.by[e].pc = "returned", !.by[e].result = DATABASE_ERROR]
       \/ call' = IF ExistingJobs(call.rows, call.by[e].job_type) # {}
                  THEN [call EXCEPT !.by[e].pc = "returned", !.by[e].result = CONFLICT]
                  ELSE [call EXCEPT !.by[e].pc = "insert"]
    /\ UNCHANGED dispatch

\* the insert of the PENDING row
EnqInsert(e) ==
    /\ AtEnqueue(e, "insert")
    /\ \/ call' = [call EXCEPT !.by[e].pc = "returned", !.by[e].result = DATABASE_ERROR]
       \/ /\ Len(call.rows) < MaxRows
          /\ call' = [call EXCEPT !.rows = Append(@, QueueRow(call.by[e].job_type, "PENDING")),
                                  !.by[e].pc = "returned", !.by[e].result = "job"]
    /\ UNCHANGED dispatch

\* getNextPendingJob of the one dispatcher: the oldest PENDING row becomes RUNNING
QueueClaim ==
    /\ call.fn = "enqueueJob"
    /\ call.running = 0
    /\ \E k \in DOMAIN call.rows :
          /\ call.rows[k].status = "PENDING"
          /\ \A j \in 1..(k - 1) : call.rows[j].status # "PENDING"
          /\ call' = [call EXCEPT !.rows[k].status = "RUNNING", !.running = k, !.idx = 1]
    /\ UNCHANGED dispatch

\* one insert of the follow-up loop of an accepted LOGIN job
QueueFollowUp ==
    /\ call.fn = "enqueueJob"
    /\ call.running # 0
    /\ call.rows[call.running].job_type = "LOGIN"
    /\ call.idx <= Len(syncJobs)
    /\ Len(call.rows) < MaxRows
    /\ call' = [call EXCEPT !.rows = Append(@, QueueRow(syncJobs[call.idx], "PENDING")),
                            !.idx = @ + 1]
    /\ UNCHANGED dispatch

\* updateJobStatus in the finally block
QueueFinish ==
    /\ call.fn = "enqueueJob"
    /\ call.running # 0
    /\ \E status \in {"COMPLETED", "FAILED"} :
          /\ status = "COMPLETED" /\ call.rows[call.running].job_type = "LOGIN"
                => call.idx > Len(syncJobs)
          /\ call' = [call EXCEPT !.rows[call.running].status = status, !.running = 0]
    /\ UNCHANGED dispatch

InitEnqueue == Aside(EnqueueCall)

NextEnqueue ==
    \/ \E e \in Enqueuers : EnqStart(e) \/ EnqSelect(e) \/ EnqInsert(e)
    \/ QueueClaim
    \/ QueueFollowUp
    \/ QueueFinish

EnqueueSpec == InitEnqueue /\ [][NextEnqueue]_vars

(* ------------------------------ Mutex.lock ----------------------------- *)
\* concurrent callers of lock on one Mutex
Callers == {"c1", "c2", "c3"}

\* a caller of lock: "idle" outside a call, "waiting" on the promise whose
\* resolver it pushed, "woken" when that promise is resolved and its
\* continuation has not run yet, "inside" while fn runs, "settled" when fn
\* has returned or thrown and the finally block has not run yet
MutexCall ==
    [fn |-> "Mutex.lock", locked |-> FALSE, queue |-> << >>,
     at |-> [c \in Callers |-> "idle"], outcome |-> [c \in Callers |-> NULL]]

AtMutex(c, pc) == call.fn = "Mutex.lock" /\ call.at[c] = pc

\* while (this.locked) await new Promise(resolve => this.queue.push(resolve));
\* this.locked = true; fn() is called
TestAndSet(c) ==
    IF call.locked
    THEN [call EXCEPT !.queue = Append(@, c), !.at[c] = "waiting"]
    ELSE [call EXCEPT !.locked = TRUE, !.at[c] = "inside", !.outcome[c] = NULL]

\* lock(fn) is called: it runs up to its first await
MutexLock(c) ==
    /\ AtMutex(c, "idle")
    /\ call' = TestAndSet(c)
    /\ UNCHANGED dispatch

\* the continuation of a resolved wait runs the loop test again
MutexResume(c) ==
    /\ AtMutex(c, "woken")
    /\ call' = TestAndSet(c)
    /\ UNCHANGED dispatch

\* fn returns or throws
MutexSettle(c) ==
    /\ AtMutex(c, "inside")
    /\ \E outcome \in {"returned", "threw"} :
          call' = [call EXCEPT !.at[c] = "settled", !.outcome[c] = outcome]
    /\ UNCHANGED dispatch

\* finally: this.locked = false; the first resolver of the queue is called
MutexFinally(c) ==
    /\ AtMutex(c, "settled")
    /\ call' = IF call.queue = << >>
               THEN [call EXCEPT !.locked = FALSE, !.at[c] = "idle"]
               ELSE [call EXCEPT !.locked = FALSE, !.at[c] = "idle",
                                 !.queue = Tail(@), !.at[Head(call.queue)] = "woken"]
    /\ UNCHANGED dispatch

InitMutex == Aside(MutexCall)

NextMutex ==
    \E c \in Callers : MutexLock(c) \/ MutexResume(c) \/ MutexSettle(c) \/ MutexFinally(c)

\* every function settles and every continuation of the microtask queue runs
FairMutexSpec ==
    /\ InitMutex
    /\ [][NextMutex]_vars
    /\ \A c \in Callers : WF_vars(MutexResume(c) \/ MutexSettle(c) \/ MutexFinally(c))

(* ------------------------------- claims -------------------------------- *)
StatusSteps ==
    {<<"PENDING", "RUNNING">>, <<"RUNNING", "COMPLETED">>, <<"RUNNING", "FAILED">>}

\* C1: with one dispatcher, a job starts PENDING and its status only ever
\* moves PENDING -> RUNNING -> COMPLETED or FAILED; once COMPLETED or FAILED
\* it never changes again
C1_StatusMachine ==
    [][/\ \A j \in JobIds :
             jobs'[j].status # jobs[j].status =>
                 <<jobs[j].status, jobs'[j].status>> \in StatusSteps
       /\ \A j \in (1..Len(jobs')) \ JobIds : jobs'[j].status = "PENDING"]_vars

\* one job has ended COMPLETED and another FAILED
C1_Witness ==
    \E j, k \in JobIds : jobs[j].status = "COMPLETED" /\ jobs[k].status = "FAILED"

\* C2: getNextPendingJob returns the PENDING job with the smallest created_at
\* and leaves exactly that row RUNNING with its start time set; when nothing is
\* PENDING it returns nothing and changes nothing; so one dispatcher starts
\* jobs in the order of their creation
C2_ClaimsOldest ==
    [][\A w \in Workers :
        /\ (wk[w].pc = "mark" /\ wk'[w].pc \notin {"mark", "backoff"}) =>
              LET id == wk[w].job.id IN
              /\ jobs[id].status = "PENDING"
              /\ \A k \in JobIds :
                    jobs[k].status = "PENDING" => jobs[id].created_at <= jobs[k].created_at
              /\ jobs'[id] = [jobs[id] EXCEPT !.status = "RUNNING", !.started_at = Date]
              /\ jobs'[id].started_at # NULL
              /\ \A k \in JobIds \ {id} : jobs'[k] = jobs[k]
              /\ Len(jobs') = Len(jobs)
              /\ wk'[w].job = jobs[id]
        /\ (wk[w].pc = "poll" /\ wk'[w].pc = "poll" /\ budget' = budget) =>
              /\ \A k \in JobIds : jobs[k].status # "PENDING"
              /\ jobs' = jobs
        /\ \A j, k \in JobIds :
              (jobs'[j].status # "PENDING" /\ jobs'[k].status = "PENDING") =>
                  jobs'[j].created_at < jobs'[k].created_at]_vars

\* the first job has ended and the second, created later, has been started
C2_Witness ==
    /\ Len(jobs) >= 2
    /\ IsTerminal(jobs[1].status)
    /\ jobs[2].status = "RUNNING" /\ jobs[2].started_at = Date
    /\ jobs[1].created_at < jobs[2].created_at

\* C3: once the handler of a claimed job has returned, normally or by raising,
\* whatever step of it failed, the job is COMPLETED or FAILED, not RUNNING
C3_HandlerEndsTerminal ==
    \A w \in Workers :
        wk[w].returned => IsTerminal(jobs[wk[w].job.id].status)

\* C4: when login of a LOGIN job raises IG_2FA_REQUIRED, the browser of that
\* job is still open, in the handler and after it; the job's row, once it
\* carries that code, is FAILED; and when the handler returns without a store
\* error the job is FAILED with the code and the account is NEEDS_2FA
C4_SecondFactor ==
    /\ \A w \in Workers :
          wk[w].errorMessage = IG_2FA_REQUIRED =>
              /\ wk[w].job.job_type = "LOGIN"
              /\ Run(w) \in browsers
              /\ (wk[w].returned /\ ~wk[w].raised) =>
                    /\ jobs[wk[w].job.id].status = "FAILED"
                    /\ jobs[wk[w].job.id].error_message = IG_2FA_REQUIRED
                    /\ profiles[wk[w].job.profile_id] = "NEEDS_2FA"
    /\ \A j \in JobIds :
          jobs[j].error_message = IG_2FA_REQUIRED =>
              /\ jobs[j].status = "FAILED"
              /\ \E b \in browsers : b.job = j

\* a LOGIN handler has returned after IG_2FA_REQUIRED
C4_Witness ==
    \E w \in Workers :
        /\ wk[w].returned /\ ~wk[w].raised
        /\ wk[w].errorMessage = IG_2FA_REQUIRED
        /\ jobs[wk[w].job.id].status = "FAILED"
        /\ profiles[wk[w].job.profile_id] = "NEEDS_2FA"
        /\ Run(w) \in browsers

\* C5: a job that is COMPLETED, or FAILED with another code than
\* IG_2FA_REQUIRED, has no browser left open
C5_BrowsersReleased ==
    \A j \in JobIds :
        (IsTerminal(jobs[j].status) /\ jobs[j].error_message # IG_2FA_REQUIRED) =>
            ~\E b \in browsers : b.job = j

\* a collection job has ended COMPLETED and another has ended FAILED after its
\* browser was launched, and no browser of either is open
C5_Witness ==
    \E j, k \in JobIds :
        /\ jobs[j].job_type \in SyncTypes /\ jobs[j].status = "COMPLETED"
        /\ jobs[k].status = "FAILED" /\ jobs[k].error_message = IG_SCRAPE_FAILED
        /\ ~\E b \in browsers : b.job \in {j, k}

\* C6: when the handler of a LOGIN job has returned and the job is COMPLETED,
\* the account's session row is VALID and holds the encrypted payload, the
\* account is CONNECTED, and the handler has inserted exactly four PENDING
\* jobs for the same account and owner: SYNC_PROFILE, SYNC_FOLLOWERS,
\* SYNC_MEDIA, DERIVE_METRICS, in that order
C6_LoginCompleted ==
    \A w \in Workers :
        (/\ wk[w].returned
         /\ wk[w].job.job_type = "LOGIN"
         /\ jobs[wk[w].job.id].status = "COMPLETED") =>
            LET p == wk[w].job.profile_id
                made == wk[w].made IN
            /\ sessions[p].state = "VALID"
            /\ sessions[p].session_payload_encrypted.algorithm = ALGORITHM
            /\ decrypt(sessions[p].session_payload_encrypted) =
                   [ok |-> TRUE, payload |-> wk[w].payload]
            /\ profiles[p] = "CONNECTED"
            /\ Len(made) = Len(syncJobs)
            /\ \A i \in 1..Len(made) :
                  /\ jobs[made[i]].job_type = syncJobs[i]
                  /\ jobs[made[i]].profile_id = p
                  /\ jobs[made[i]].user_id = wk[w].job.user_id
                  /\ jobs[made[i]].status = "PENDING"
                  /\ i > 1 => jobs[made[i - 1]].created_at < jobs[made[i]].created_at

\* C7: the loop of a dispatcher never ends: it polls again and again; from
\* the catch of the loop it goes, after the backoff, to the next poll and
\* nowhere else; and a PENDING job is claimed whatever failed before it
C7_LoopGoesOn ==
    /\ []<>(wk["w1"].pc = "poll")
    /\ (wk["w1"].pc = "backoff") ~> (wk["w1"].pc = "poll")
    /\ [][wk["w1"].pc = "backoff" => wk'["w1"].pc \in {"backoff", "poll"}]_vars
    /\ \A id \in 1..(LiveEnqueue + MaxLogins * Len(syncJobs)) :
          (id \in JobIds /\ jobs[id].status = "PENDING") ~>
              (id \in JobIds /\ jobs[id].status # "PENDING")

\* the handler of a job has raised, the loop is in its backoff, and a job
\* created later is PENDING
C7_Witness ==
    /\ wk["w1"].pc = "backoff" /\ wk["w1"].returned /\ wk["w1"].raised
    /\ \E k \in JobIds : k > wk["w1"].job.id /\ jobs[k].status = "PENDING"

\* a dispatcher is between the return of getNextPendingJob and the end of processJob
InHandler(w) == wk[w].pc \notin {"off", "stopped", "poll", "mark", "backoff"}

\* C8: with two dispatchers the update of getNextPendingJob is made whatever
\* the row's status has become since the select: a dispatcher that selected a
\* job always sets it RUNNING and runs its handler, unless the update fails
\* or the process stops; so both can hold the same job
C8_UnconditionalClaim ==
    [][\A w \in Workers :
        (wk[w].pc = "mark" /\ wk'[w] # wk[w]) =>
            \/ wk'[w].pc \in {"backoff", "stopped"}
            \/ /\ InHandler(w)'
               /\ wk'[w].job = wk[w].job
               /\ jobs'[wk[w].job.id].status = "RUNNING"]_vars

\* both dispatchers are in the handler of the same job
C8_Witness ==
    /\ InHandler("w1") /\ InHandler("w2")
    /\ wk["w1"].job.id = wk["w2"].job.id

\* C9: with any number of dispatchers, a job that is COMPLETED or FAILED
\* never changes status again
C9_TerminalImmutable ==
    [][\A j \in JobIds :
        IsTerminal(jobs[j].status) => jobs'[j].status = jobs[j].status]_vars

\* C9 as it holds: the status of a COMPLETED or FAILED job changes only by a
\* write of a dispatcher that selected the job while it was PENDING, either
\* its update to RUNNING or the updateJobStatus of its handler
C9_OnlyStaleWrites ==
    [][\A j \in JobIds :
        (IsTerminal(jobs[j].status) /\ jobs'[j].status # jobs[j].status) =>
            \E w \in Workers :
                /\ wk[w].job.id = j
                /\ wk[w].job.status = "PENDING"
                /\ \/ wk[w].pc = "mark" /\ jobs'[j].status = "RUNNING"
                   \/ wk[w].pc = "finish" /\ IsTerminal(jobs'[j].status)]_vars

\* a job that was COMPLETED or FAILED is RUNNING again: it has an end time
C9_Witness ==
    \E j \in JobIds : jobs[j].status = "RUNNING" /\ jobs[j].finished_at # NULL

\* a job is RUNNING and no dispatcher is about to update it or in its handler
Orphaned(j) ==
    /\ jobs[j].status = "RUNNING"
    /\ \A w \in Workers :
          wk[w].job.id = j => wk[w].pc \in {"poll", "backoff"}

\* C10: a job that is RUNNING while no dispatcher handles it, as after the
\* stop of the dispatcher that claimed it, stays so: no poll of a restarted
\* or other dispatcher selects it and no write changes its status
C10_StuckRunning ==
    [][\A j \in JobIds : Orphaned(j) => Orphaned(j)']_vars

\* w1 stopped while its job was RUNNING, nothing else went wrong, and w2 is
\* polling
C10_Witness ==
    /\ wk["w1"].pc = "stopped" /\ wk["w2"].pc = "poll"
    /\ faults = MultiFaults - 1
    /\ \E j \in JobIds : Orphaned(j)

\* the state of the login state machine a call is in
Phase(c) ==
    CASE c.pc \in {"initBrowser", "goto", "submit"} -> "Unauthenticated"
      [] c.pc = "detect" -> "CredentialsSubmitted"
      [] c.pc \in {"wait", "code"} -> "AwaitingSecondFactor"
      [] c.pc = "check" ->
            IF c.is2faRequired THEN "AwaitingSecondFactor" ELSE "CredentialsSubmitted"
      [] c.pc = "capture" -> "Authenticated"
      [] c.pc = "catch" -> "Failed"
      [] OTHER -> IF c.result = "payload" THEN "Authenticated" ELSE "Failed"

LoginEdges ==
    {<<"Unauthenticated", "CredentialsSubmitted">>,
     <<"CredentialsSubmitted", "AwaitingSecondFactor">>,
     <<"CredentialsSubmitted", "Authenticated">>,
     <<"CredentialsSubmitted", "Failed">>,
     <<"AwaitingSecondFactor", "Authenticated">>,
     <<"AwaitingSecondFactor", "Failed">>}

C12_NoWaitWhenDisallowed ==
    (/\ call.fn = "login"
     /\ call.is2faRequired /\ ~call.twoFaCode /\ ~call.showBrowser) =>
        /\ ~call.waited /\ call.polls = 0
        /\ call.pc \in {"catch", "done"}
        /\ call.pc = "catch" => call.error = IG_2FA_REQUIRED
        /\ call.pc = "done" => call.result = IG_2FA_REQUIRED

MaxWaitPolls == MaxWaitMs \div PollMs

\* one step of the manual wait: the poll count and the clock stay under the
\* ceiling, and a poll that stays in the wait has let PollMs pass
WaitStep ==
    /\ call'.polls <= MaxWaitPolls /\ call'.elapsed <= MaxWaitMs
    /\ call'.pc = "wait" =>
          /\ call'.polls = call.polls + 1
          /\ call'.elapsed >= call.elapsed + PollMs \/ call'.elapsed = MaxWaitMs

ExitSuccess == call'.pc = "check" /\ call'.polls = call.polls + 1
ExitCeiling ==
    /\ call'.pc = "catch" /\ call'.error = IG_2FA_REQUIRED
    /\ call.elapsed = MaxWaitMs /\ call'.browser
ExitRaised == call'.pc = "catch" /\ call'.error = "unexpected"

\* a wait that failed at the ceiling ends login with IG_2FA_REQUIRED and the
\* browser open
CeilingKeepsBrowser ==
    (AtLogin("catch") /\ call.error = IG_2FA_REQUIRED) =>
        call'.pc = "done" /\ call'.result = IG_2FA_REQUIRED /\ call'.browser

C14_CheckSession ==
    (call.fn = "checkSession" /\ call.pc = "done") =>
        /\ call.result = "true" =>
              /\ call.isLoggedIn /\ call.page /\ call.raisedAt = NULL
              /\ call.cookies = call.sessionPayload.cookies
        /\ call.raisedAt \in {"goto", "isVisible"} => call.result = "false"

C14_Witness ==
    /\ call.fn = "checkSession" /\ call.pc = "done"
    /\ call.raisedAt = "goto" /\ call.result = "false"
    /\ call.cookies = {"sessionid", "csrftoken"}

\* a step of dispatcher w in which no store or platform call failed
CleanStep(w) == wk'[w] # wk[w] /\ faults' = faults

BestEffort == {"follower_changes.insert", "followers_snapshots.insert"}

\* C16: in syncFollowers, syncMedia and deriveMetrics every store error makes
\* the operation fail, except the two best-effort report writes, which are
\* logged and continued: no other store error is passed over
C16_StoreErrorsFatal ==
    (call.fn \in SyncOps /\ call.pc = "done" /\ call.result = "returned") =>
        call.ignored \subseteq BestEffort

C18_AlgorithmChecked ==
    [][(/\ call.fn = "EncryptionService" /\ call.pc = "encrypted"
        /\ call'.input # << >> /\ call'.input.algorithm # ALGORITHM) =>
            /\ call'.pc = "done" /\ call'.raisedBy = "decrypt"
            /\ call'.error = INTERNAL_SERVER_ERROR
            /\ call'.decrypted = << >>]_vars

\* decrypt has refused the very row encrypt returned, with another algorithm
\* field
C18_Witness ==
    /\ call.fn = "EncryptionService" /\ call.pc = "done" /\ call.raisedBy = "decrypt"
    /\ call.input.algorithm = "aes-128-cbc"
    /\ call.input.iv = call.encrypted.iv
    /\ call.input.encryptedData = call.encrypted.encryptedData

\* C19: the constructor raises for every key that is not 32 bytes: no
\* instance holds such a key, and no encrypt or decrypt is the first to fail
\* on the key's length
C19_KeyCheckedAtConstruction ==
    (call.fn = "EncryptionService" /\ BufferFromHex(call.encryptionKeyHex) # KEY_LENGTH) =>
        /\ call.pc \in {"new", "done"}
        /\ call.pc = "done" => call.raisedBy = "constructor" /\ call.error = INVALID_INPUT

\* the request of this step was answered with a page
Answered == call'.requests = call.requests + 1 /\ call'.stopped # "error"

\* the list of this frame has ended
ListEnded(c) == c.pc \in {"between", "done"}

\* C20: fetchUserListViaGraphQL makes no further request after a page
\* without items, after a page without a further cursor, and once the list
\* has maxCount records; and with a cap the list never has more than
\* maxCount records
C20_Pagination ==
    [][(call.fn = "fetchUserListViaGraphQL" /\ call.pc = "while") =>
        /\ (Answered /\ call'.page.edges = << >>) =>
              ListEnded(call') /\ call'.users = call.users
        /\ (Answered /\ (~call'.page.has_next_page \/ call'.page.end_cursor = NULL)) =>
              ListEnded(call')
        /\ (call.maxCount # NoCap /\ Len(call.users) >= call.maxCount) =>
              call'.issued = call.issued /\ ListEnded(call')
        /\ call.maxCount # NoCap => Len(call'.users) <= call.maxCount]_vars

\* a capped call has returned exactly maxCount records, after a second page
\* that held more than were still wanted
C20_Witness ==
    /\ call.fn = "fetchUserListViaGraphQL" /\ ListEnded(call)
    /\ call.maxCount = 3 /\ Len(call.users) = 3
    /\ call.requests = 2 /\ Len(call.page.edges) = 2

\* C21: when a page request of a list fails, the loop ends without another
\* request and the list returned holds exactly the records of the pages
\* answered before, in their order; fetchUserListViaGraphQL does not raise
C21_PartialOnFailure ==
    [][(/\ call.fn = "fetchUserListViaGraphQL" /\ call.pc = "while"
        /\ call'.stopped = "error") =>
            /\ ListEnded(call') /\ ~call'.raised
            /\ call'.users = call.users
            /\ call'.users = call.fetched
            /\ call'.type = call.type]_vars

\* the second request of a list has failed after a page of two records
C21_Witness ==
    /\ call.fn = "fetchUserListViaGraphQL" /\ ListEnded(call)
    /\ call.stopped = "error" /\ call.requests = 2
    /\ call.users = <<UserRecord([id |-> "", username |-> "b"]),
                      UserRecord([id |-> "1", username |-> "a"])>>

\* C22: every page request of a scrape but the first is issued after a
\* delay that followed the request before it: PageDelayMs within a list,
\* ListDelayMs between the followers and the following list
C22_DelayBetweenRequests ==
    [][(/\ call.fn = "fetchUserListViaGraphQL"
        /\ call'.issued = call.issued + 1 /\ call.issued > 0) =>
            /\ call.waited > 0
            /\ call.waited = IF call.requests > 0 THEN PageDelayMs ELSE ListDelayMs]_vars

\* both lists took two requests each, and the last was followed by its delay
C22_Witness ==
    /\ call.fn = "fetchUserListViaGraphQL" /\ call.type = "following"
    /\ call.requests = 2 /\ call.issued = 4
    /\ call.waited = PageDelayMs

\* the id sets of the last sync: what the table held before it, and what
\* the two scraped lists hold
Synced == call.fn = "syncFollowers:diff" /\ call.synced
IdSet(data) == {data[k].ig_id : k \in DOMAIN data}
PreviousFollowers == {id \in DOMAIN call.previous : call.previous[id].is_follower}
PreviousFollowing == {id \in DOMAIN call.previous : call.previous[id].is_following}
CurrentFollowers == IdSet(call.followersData)
CurrentFollowing == IdSet(call.followingData)

\* C23: the merged records of a sync are one per distinct id of the two
\* current lists, so their number is the size of the union of the two id
\* sets, and a record whose id is in both lists has all three flags true
C23_OneRecordPerId ==
    Synced =>
        LET merged == call.followersToUpsert IN
        /\ Len(merged) = Cardinality(CurrentFollowers \cup CurrentFollowing)
        /\ IdSet(merged) = CurrentFollowers \cup CurrentFollowing
        /\ \A k \in DOMAIN merged :
              merged[k].ig_id \in CurrentFollowers \cap CurrentFollowing =>
                  /\ merged[k].is_follower /\ merged[k].is_following
                  /\ merged[k].is_following_back

\* a follower scraped twice who is also followed, next to one followed only
C23_Witness ==
    /\ Synced
    /\ IdsOf(call.followersData) = <<"A", "A">>
    /\ IdsOf(call.followingData) = <<"A", "B">>
    /\ Len(call.followersToUpsert) = 2

\* C24: every merged record has is_following_back = (is_follower and
\* is_following), for all lists, repeated ids included
C24_FollowingBack ==
    Synced =>
        \A k \in DOMAIN call.followersToUpsert :
            LET u == call.followersToUpsert[k] IN
            u.is_following_back = (u.is_follower /\ u.is_following)

Changed(type) ==
    CASE type = "NEW_FOLLOWER" -> CurrentFollowers \ PreviousFollowers
      [] type = "UNFOLLOWED" -> PreviousFollowers \ CurrentFollowers
      [] type = "STARTED_FOLLOWING" -> CurrentFollowing \ PreviousFollowing
      [] type = "STOPPED_FOLLOWING" -> PreviousFollowing \ CurrentFollowing

ChangeTypes == {"NEW_FOLLOWER", "UNFOLLOWED", "STARTED_FOLLOWING", "STOPPED_FOLLOWING"}

EventsOf(id, type) ==
    {k \in DOMAIN call.changes :
        call.changes[k].follower_ig_id = id /\ call.changes[k].change_type = type}

Derived == call.fn = "deriveMetrics:compute" /\ call.derived

\* the daily insight the last run stored
TodaysInsight == call.insights[call.today]

\* sum of likes and comments over all content items
TotalEngagement ==
    LET media == call.media
        RECURSIVE Engagement(_)
        Engagement(k) ==
            IF k = 0 THEN 0
            ELSE media[k].likes_count + media[k].comments_count + Engagement(k - 1)
    IN Engagement(Len(media))

C28_FollowersGrowth ==
    Derived =>
        TodaysInsight.followers_growth =
            IF call.previousInsights = << >> THEN 0
            ELSE call.followers_count - call.previousInsights[1].followers_count

\* the hashtag statistics of the content items the store holds
Recomputed == HashtagMetrics(HashtagStats(<< >>, call.media))

\* C29: after every run of deriveMetrics that completes, the stored
\* hashtag statistics are exactly those recomputed from the current content
\* items, also when no content item carries a hashtag: no row of an
\* earlier run is left.
C29_HashtagsRecomputed == Derived => call.hashtags_metrics = Recomputed

\* the content items that bear a tag
Bearing(tag) ==
    {k \in DOMAIN call.media :
        \E j \in DOMAIN call.media[k].hashtags : CleanTag(call.media[k].hashtags[j]) = tag}

\* likes and comments of a set of content items
RECURSIVE EngagementOf(_)
EngagementOf(bearers) ==
    IF bearers = {} THEN 0
    ELSE LET k == CHOOSE k \in bearers : TRUE
         IN call.media[k].likes_count + call.media[k].comments_count
                + EngagementOf(bearers \ {k})

\* the last run wrote the hashtag statistics
TagsWritten == Derived /\ \E k \in DOMAIN call.media : call.media[k].hashtags # << >>

\* C30: for every tag, usage_count is the number of content bearers bearing
\* the tag, total_engagement the sum of their likes and comments,
\* avg_engagement = total_engagement / usage_count, and first_used and
\* last_used the earliest and the latest timestamp of those bearers.
C30_TagStatistics ==
    TagsWritten =>
        \A tag \in DOMAIN call.hashtags_metrics :
            LET row == call.hashtags_metrics[tag]
                bearers == Bearing(tag)
            IN /\ row.usage_count = Cardinality(bearers)
               /\ row.total_engagement = EngagementOf(bearers)
               /\ row.avg_engagement.num * row.usage_count
                      = row.avg_engagement.den * row.total_engagement
               /\ \E k \in bearers : call.media[k].timestamp = row.first_used
               /\ \E k \in bearers : call.media[k].timestamp = row.last_used
               /\ \A k \in bearers : /\ row.first_used <= call.media[k].timestamp
                                   /\ call.media[k].timestamp <= row.last_used

\* PENDING or RUNNING rows of a job type, all of the one profile
Unfinished(job_type) == ExistingJobs(call.rows, job_type)

\* C31: at any time at most one job with status PENDING or RUNNING exists
\* for a (profile, job_type), and enqueueJob answers CONFLICT without
\* inserting when one exists, for every interleaving of the enqueuers and
\* of the follow-up batch of the dispatcher.
C31_OneUnfinishedJob ==
    call.fn = "enqueueJob" =>
        \A t \in EnqueuedTypes \cup {syncJobs[k] : k \in DOMAIN syncJobs} :
            Cardinality(Unfinished(t)) <= 1

\* callers whose function runs inside the lock
Inside == {c \in Callers : call.at[c] = "inside"}

\* at most one function runs inside the lock, and the lock is held while one does
MutualExclusion ==
    call.fn = "Mutex.lock" =>
        /\ Cardinality(Inside) <= 1
        /\ Inside # {} => call.locked

\* the finally block of a settled call frees the lock, whatever the outcome
Released ==
    [][\A c \in Callers :
          AtMutex(c, "settled") /\ call'.at[c] = "idle" => ~call'.locked]_vars

\* C32: at most one caller's function runs inside the lock at a time, the
\* lock is released when the function returns or throws, and every
\* waiting caller eventually runs its function.
C32_MutexLock ==
    /\ []MutualExclusion
    /\ Released
    /\ \A c \in Callers :
          (call.fn = "Mutex.lock" /\ call.at[c] \in {"waiting", "woken"})
              ~> (call.at[c] = "inside")

\* a second run of syncFollowers with the lists of the run just completed
SecondRun == RelationDiff(call.table, call.followersData, call.followingData)

\* C33: running syncFollowers twice in succession with the same followers
\* and following lists produces no change event on the second run and a
\* second snapshot with new_followers = 0 and lost_followers = 0, also
\* when the first run detected lost followers or stopped followings.
C33_SecondRunQuiet ==
    Synced =>
        /\ SecondRun.changes = << >>
        /\ SecondRun.snapshot.new_followers = 0
        /\ SecondRun.snapshot.lost_followers = 0

\* the daily insight a further run of deriveMetrics would store now
AnotherRun ==
    Insight(call.followers_count,
            FollowersGrowth(PreviousInsights(call.insights), call.followers_count),
            EngagementRate(TotalLikes(call.media) + TotalComments(call.media),
                           Len(call.media), call.followers_count))

\* C34: running deriveMetrics twice on the same date with unchanged
\* profile counters and content items leaves the daily insight of that
\* date with the followers_growth and engagement_rate of the first run.
C34_SameDayIdempotent ==
    Derived =>
        /\ AnotherRun.followers_growth = TodaysInsight.followers_growth
        /\ AnotherRun.engagement_rate = TodaysInsight.engagement_rate

\* job j failed with SESSION_EXPIRED in case RECONNECT and no LOGIN job
\* created after it for the same account has been started
ExpiredBy(j, p) ==
    /\ jobs[j].profile_id = p
    /\ jobs[j].job_type = "RECONNECT"
    /\ jobs[j].status = "FAILED"
    /\ jobs[j].error_message = SESSION_EXPIRED
    /\ \A l \in DOMAIN jobs :
          l > j /\ jobs[l].profile_id = p /\ jobs[l].job_type = "LOGIN"
              => jobs[l].status = "PENDING"

\* C35: after a job has failed with SESSION_EXPIRED on the session check,
\* every later sync-class job for the same account fails with
\* SESSION_EXPIRED without opening a browser, until a LOGIN job for the
\* account completes: no such job is handed the session and goes on to
\* open a browser and collect.
C35_ExpiredSessionNotServed ==
    \A w \in Workers, j \in DOMAIN jobs :
        /\ wk[w].job.job_type \in SyncTypes
        /\ wk[w].job.id > j
        /\ ExpiredBy(j, wk[w].job.profile_id)
        => wk[w].pc \notin {"collect", "store"}

\* C36: with a single dispatcher that keeps running, a record store whose
\* operations succeed and handlers that terminate, every PENDING job is
\* eventually claimed and eventually reaches COMPLETED or FAILED, however
\* many jobs are enqueued after it.
C36_EveryJobEnds ==
    \A id \in 1..(LiveEnqueue + MaxLogins * Len(syncJobs)) :
        (id \in JobIds /\ jobs[id].status = "PENDING") ~>
            (id \in JobIds /\ jobs[id].status \in {"COMPLETED", "FAILED"})

\* C37: a SYNC_FOLLOWERS job whose collection succeeded hands the followers
\* and the following to syncFollowers as two separate lists and ends
\* COMPLETED with processed_items = the number of merged relation records
C37_TwoListsHandedOver ==
    AtHandOver("done") =>
        /\ call.followersData = Passed(call.followers)
        /\ call.followingData = Passed(call.following)
        /\ call.row.status = "COMPLETED"
        /\ call.row.processed_items = Len(Merge(call.followers, call.following))

\* the browser processes launched by jobs of an account that are still open
OpenBrowsers(p) == {b \in browsers : jobs[b.job].profile_id = p}

\* C38: with a single dispatcher at most one browser process per tracked
\* account is open at any time: a browser retained after the second factor was
\* required is reused or released before a later job of the account opens one
C38_OneBrowserPerAccount ==
    \A p \in Profiles : Cardinality(OpenBrowsers(p)) <= 1

\* C39: a list fetched with a cap (maxCount is not the no-cap value) never
\* takes more than maxCount page requests, whatever the pages hold and
\* whichever request fails: every pass of the loop makes one request, so the
\* loop ends within maxCount passes
C39_AtMostMaxCountRequests ==
    (call.fn = "fetchUserListViaGraphQL" /\ call.maxCount # NoCap) =>
        call.requests <= call.maxCount

\* the cap and not the pages ends a list: three requests were made for a cap
\* of three while the last page announced a next one
C39_Witness ==
    /\ AtFetch("while")
    /\ call.maxCount = MaxCount /\ call.requests = MaxCount
    /\ call.hasNextPage /\ call.afterCursor # NULL

\* what an error message written by the catch of processJob starts with: the
\* code of an AppError, or 'Internal Error'
MessagePrefixes ==
    {IG_2FA_REQUIRED, IG_LOGIN_FAILED, IG_SCRAPE_FAILED, SESSION_EXPIRED, INVALID_INPUT,
     DATABASE_ERROR, NOT_FOUND, INTERNAL_SERVER_ERROR, InternalError}

\* C40: every terminal row of sync_jobs has status FAILED exactly when its
\* error_message is not null: COMPLETED rows carry no message, FAILED rows
\* carry one that starts with an error code or with 'Internal Error'
C40_FailedIffMessage ==
    \A id \in JobIds :
        IsTerminal(jobs[id].status) =>
            /\ jobs[id].status = "FAILED" <=> jobs[id].error_message # NULL
            /\ jobs[id].status = "FAILED" => jobs[id].error_message \in MessagePrefixes

\* a COMPLETED row without message beside a FAILED row whose message is that
\* of an error that is not an AppError
C40_Witness ==
    \E a, b \in JobIds :
        /\ jobs[a].status = "COMPLETED" /\ jobs[a].error_message = NULL
        /\ jobs[b].status = "FAILED" /\ jobs[b].error_message = InternalError

====
